---- MODULE Spec2Model ----
(***************************************************************************)
(* A model of the nmcli module (community.general): the reconciliation     *)
(* driver main(), the Nmcli object it drives, the option mapper            *)
(* connection_options() and the change detector _compare_conn_params().    *)
(* The external tool is the environment: every invocation returns an exit  *)
(* code chosen nondeterministically, and the named connection exists or    *)
(* not in the tool's store.                                                *)
(***************************************************************************)
EXTENDS Integers, Sequences, FiniteSets, TLC

(***************************************************************************)
(* Python values.  Every value is a record [t, v] whose payload v is a     *)
(* sequence of strings, so that values of different Python types can be    *)
(* compared: None, str, int (decimal text), bool and list of str.          *)
(***************************************************************************)
None == [t |-> "none", v |-> <<>>]
PyStr(s) == [t |-> "str", v |-> <<s>>]
PyInt(s) == [t |-> "int", v |-> <<s>>]
PyBool(b) == [t |-> "bool", v |-> <<IF b THEN "True" ELSE "False">>]
PyList(l) == [t |-> "list", v |-> l]

\* Python truthiness of a value: None, False, 0, '' and [] are falsy.
Truthy(x) ==
    CASE x.t = "none" -> FALSE
      [] x.t = "bool" -> x.v[1] = "True"
      [] x.t = "int" -> x.v[1] # "0"
      [] x.t = "str" -> x.v[1] # ""
      [] OTHER -> Len(x.v) > 0

RECURSIVE Join(_, _)
\* sep.join(lst)
Join(sep, lst) ==
    IF Len(lst) = 0 THEN ""
    ELSE IF Len(lst) = 1 THEN lst[1]
    ELSE lst[1] \o sep \o Join(sep, Tail(lst))

RECURSIVE Quoted(_)
\* the elements of a list, each in quotes, as repr() shows them
Quoted(lst) ==
    IF Len(lst) = 0 THEN <<>> ELSE <<"'" \o lst[1] \o "'">> \o Quoted(Tail(lst))

\* to_text(value): the text of a value (str() of a non-string)
to_text(x) ==
    CASE x.t = "none" -> PyStr("None")
      [] x.t = "list" -> PyStr("[" \o Join(", ", Quoted(x.v)) \o "]")
      [] OTHER -> PyStr(x.v[1])

\* an empty dict (a dict option left unset is falsy like an empty one)
EmptyDict == [k \in {} |-> None]

\* main()'s diff before the detector has run
NoDiff == [before |-> EmptyDict, after |-> EmptyDict]

(***************************************************************************)
(* Texts.  A text is a TLA+ string, which has no characters to inspect, so  *)
(* the two string operations the module applies to option values are       *)
(* computed over the texts the model uses: str.upper() on the MAC          *)
(* addresses and `'/' in address` on the IP addresses.                     *)
(***************************************************************************)
\* the MAC addresses of the model
MacLower == "aa:bb:cc:dd:ee:ff"
MacUpper == "AA:BB:CC:DD:EE:FF"
MacOther == "AA:BB:CC:DD:EE:00"

\* value.upper()
upper(s) == IF s = MacLower THEN MacUpper ELSE s

\* the IP addresses of the model, bare and with a prefix length
Hosts4 == {"192.0.2.1", "192.0.2.2"}
Hosts6 == {"2001:db8::1", "2001:db8::2"}
PrefixLengths == {"/24", "/32", "/64", "/128"}

\* has_slash finding no '/' in any address
has_slash_never(address) == FALSE

\* '/' in address
has_slash(address) ==
    address \in {h \o l : h \in Hosts4 \cup Hosts6, l \in PrefixLengths}

\* [address if '/' in address else address + '/32' for address in ip4_addresses]
enforce_ipv4_cidr_notation(ip4_addresses) ==
    IF ip4_addresses = None THEN None
    ELSE PyList([i \in 1..Len(ip4_addresses.v) |->
                   IF has_slash(ip4_addresses.v[i]) THEN ip4_addresses.v[i]
                   ELSE ip4_addresses.v[i] \o "/32"])

\* [address if '/' in address else address + '/128' for address in ip6_addresses]
enforce_ipv6_cidr_notation(ip6_addresses) ==
    IF ip6_addresses = None THEN None
    ELSE PyList([i \in 1..Len(ip6_addresses.v) |->
                   IF has_slash(ip6_addresses.v[i]) THEN ip6_addresses.v[i]
                   ELSE ip6_addresses.v[i] \o "/128"])

\* enforce_routes_format(routes, routes_extended) with routes_extended unset
enforce_routes_format(routes) == routes

\* the routes of the model as the tool prints them and as route_to_string
\* writes them
RoutePrinted == <<"{ ip = 198.51.100.0/24, nh = 192.0.2.254 }",
                  "{ ip = 203.0.113.0/24, nh = 192.0.2.254 }",
                  "{ ip = 2001:db8:1::/64, nh = 2001:db8::254 }",
                  "{ ip = 2001:db8:2::/64, nh = 2001:db8::254 }">>
RouteText == <<"198.51.100.0/24 192.0.2.254", "203.0.113.0/24 192.0.2.254",
               "2001:db8:1::/64 2001:db8::254", "2001:db8:2::/64 2001:db8::254">>

\* get_route_params(raw_values): the ip, nh and mt of each printed route,
\* written as route_to_string writes them
get_route_params(raw_values) ==
    PyList([i \in 1..Len(raw_values.v) |->
              RouteText[CHOOSE j \in 1..Len(RoutePrinted) :
                            RoutePrinted[j] = raw_values.v[i]]])

(***************************************************************************)
(* Bounds of the model.                                                    *)
(***************************************************************************)
\* the nonzero exit codes the tool can return are 1..MaxRC
MaxRC == 1
\* how many times another actor may add or delete the named connection
\* while a run is in progress
MaxExternal == 1

\* rc before any command has set it: (rc, out, err) = (None, '', '')
RcNone == -1

NonzeroRCs == 1..MaxRC
RCs == {0} \cup NonzeroRCs

(***************************************************************************)
(* The argument specification.                                             *)
(***************************************************************************)
StateChoices == {"absent", "present", "up", "down"}

TypeChoices ==
    {"bond", "bond-slave", "bridge", "bridge-slave", "dummy", "ethernet",
     "generic", "gre", "infiniband", "ipip", "sit", "team", "team-slave",
     "vlan", "vxlan", "wifi", "gsm", "macvlan", "wireguard", "vpn",
     "loopback", "ovs-interface", "ovs-bridge", "ovs-port", "vrf"}

\* no option kept out of the command line
SECRET_OPTIONS_none == {}

SECRET_OPTIONS ==
    {"802-11-wireless-security.leap-password",
     "802-11-wireless-security.psk",
     "802-11-wireless-security.wep-key0",
     "802-11-wireless-security.wep-key1",
     "802-11-wireless-security.wep-key2",
     "802-11-wireless-security.wep-key3"}

VARIABLES
    module,      \* the AnsibleModule: params and check_mode (never written)
    nmcli,       \* the Nmcli object's fields
    pc,          \* main()'s position: the next step to take
    rc,          \* main()'s local rc (RcNone until a command sets it)
    err,         \* main()'s local err
    changed,     \* main()'s local changed, the detector's answer (None until set)
    diff,        \* main()'s local diff, the detector's before/after record
    unsupported_properties, \* main()'s local dict of dropped sub-options
    result,      \* what exit_json / fail_json reported
    cmds,        \* every run_command call so far, with its exit code
    tool,        \* the external tool's store
    interfered   \* number of changes other actors made to the store

vars == <<module, nmcli, pc, rc, err, changed, diff, unsupported_properties,
          result, cmds, tool, interfered>>

(***************************************************************************)
(* Nmcli: the properties that classify the connection type.                *)
(***************************************************************************)
StrSet(S) == {PyStr(x) : x \in S}

ip_conn_type(self) ==
    self.type \in StrSet({"bond", "bridge", "dummy", "ethernet",
        "802-3-ethernet", "generic", "gre", "infiniband", "ipip", "sit",
        "team", "vlan", "wifi", "802-11-wireless", "gsm", "macvlan",
        "wireguard", "vpn", "loopback", "ovs-interface", "vrf"})

mac_setting(self) ==
    IF self.type = PyStr("bridge") THEN "bridge.mac-address"
    ELSE "802-3-ethernet.cloned-mac-address"

mtu_conn_type(self) ==
    self.type \in StrSet({"bond", "bond-slave", "dummy", "ethernet",
        "infiniband", "team-slave", "vlan"})

mtu_setting(self) ==
    IF self.type = PyStr("infiniband") THEN "infiniband.mtu"
    ELSE "802-3-ethernet.mtu"

\* a conversion that leaves an unset MTU unset
mtu_to_string_unset(mtu) == IF ~Truthy(mtu) THEN None ELSE to_text(mtu)

mtu_to_string(mtu) == IF ~Truthy(mtu) THEN PyStr("auto") ELSE to_text(mtu)

slave_conn_type(self) ==
    self.type \in StrSet({"ethernet", "bridge", "bond", "vlan", "team",
        "wifi", "bond-slave", "bridge-slave", "team-slave", "infiniband",
        "ovs-port", "ovs-interface"})

tunnel_conn_type(self) == self.type \in StrSet({"gre", "ipip", "sit"})

bool_to_string(boolean) == IF Truthy(boolean) THEN PyStr("yes") ELSE PyStr("no")

\* a conversion that joins with semicolons
list_to_string_semicolons(lst) ==
    IF lst = None THEN None ELSE PyStr(Join(";", lst.v))

list_to_string(lst) == IF lst = None THEN None ELSE PyStr(Join(",", lst.v))

settings_type(setting) ==
    IF setting \in {"bridge.stp", "bridge-port.hairpin-mode",
                    "connection.autoconnect", "ipv4.never-default",
                    "ipv4.ignore-auto-dns", "ipv4.ignore-auto-routes",
                    "ipv4.may-fail", "ipv6.ignore-auto-dns",
                    "ipv6.ignore-auto-routes", "802-11-wireless.hidden",
                    "team.runner-fast-rate"}
    THEN "bool"
    ELSE IF setting \in {"ipv4.addresses", "ipv6.addresses", "ipv4.dns",
                    "ipv4.dns-search", "ipv4.dns-options", "ipv4.routes",
                    "ipv4.routing-rules", "ipv6.dns", "ipv6.dns-search",
                    "ipv6.dns-options", "ipv6.routes",
                    "802-11-wireless-security.group",
                    "802-11-wireless-security.leap-password-flags",
                    "802-11-wireless-security.pairwise",
                    "802-11-wireless-security.proto",
                    "802-11-wireless-security.psk-flags",
                    "802-11-wireless-security.wep-key-flags",
                    "802-11-wireless.mac-address-blacklist"}
    THEN "list"
    ELSE IF setting \in {"connection.autoconnect-priority",
                         "connection.autoconnect-retries"}
    THEN "int"
    ELSE "str"

\* create_connection_up without the test of mtu
create_connection_up_dns_only(self) ==
    IF self.type \in StrSet({"bond", "dummy", "ethernet", "infiniband", "wifi", "team"})
    THEN (self.dns4 # None) \/ (self.dns6 # None)
    ELSE FALSE

\* the create path brings the new connection up when mtu or dns is given
create_connection_up(self) ==
    IF self.type \in StrSet({"bond", "dummy", "ethernet", "infiniband", "wifi"})
    THEN (self.mtu # None) \/ (self.dns4 # None) \/ (self.dns6 # None)
    ELSE IF self.type = PyStr("team")
    THEN (self.dns4 # None) \/ (self.dns6 # None)
    ELSE FALSE

(***************************************************************************)
(* The option mapper.  An options dict is a function from setting names to *)
(* values.  The model carries the options of the parameters it models;     *)
(* every other parameter is left unset.                                    *)
(***************************************************************************)
\* d.update(e)
Update(d, e) == e @@ d

\* {'<prefix>.<name>': value for name, value in d.items()}
Prefixed(prefix, d) ==
    LET keys == {prefix \o "." \o n : n \in DOMAIN d}
    IN [k \in keys |-> d[CHOOSE n \in DOMAIN d : prefix \o "." \o n = k]]

\* the error connection_options reports for a slave connection type whose
\* slave_type is given and is not the one the type stands for
slave_type_of(type) ==
    CASE type = PyStr("bond-slave") -> PyStr("bond")
      [] type = PyStr("bridge-slave") -> PyStr("bridge")
      [] type = PyStr("team-slave") -> PyStr("team")
      [] OTHER -> None

slave_type_mismatch(self) ==
    /\ slave_type_of(self.type) # None
    /\ Truthy(self.slave_type)
    /\ self.slave_type # slave_type_of(self.type)

\* the dict built by connection_options before the values are converted
raw_options(self) ==
    LET common == ("connection.autoconnect" :> self.autoconnect)
                  @@ ("connection.autoconnect-priority" :> self.autoconnect_priority)
        ip == IF (ip_conn_type(self)
                  /\ (~Truthy(self.master) \/ self.slave_type = PyStr("vrf")))
                 \/ self.type = PyStr("ovs-interface")
              THEN ("ipv4.addresses" :> enforce_ipv4_cidr_notation(self.ip4))
                   @@ ("ipv4.dns" :> self.dns4)
                   @@ ("ipv4.dns-search" :> self.dns4_search)
                   @@ ("ipv4.dns-options" :> self.dns4_options)
                   @@ ("ipv4.ignore-auto-dns" :> self.dns4_ignore_auto)
                   @@ ("ipv4.gateway" :> self.gw4)
                   @@ ("ipv4.ignore-auto-routes" :> self.gw4_ignore_auto)
                   @@ ("ipv4.routes" :> enforce_routes_format(self.routes4))
                   @@ ("ipv4.routing-rules" :> self.routing_rules4)
                   @@ ("ipv4.never-default" :> self.never_default4)
                   @@ ("ipv4.method" :> self.ipv4_method)
                   @@ ("ipv4.may-fail" :> self.may_fail4)
                   @@ ("ipv6.addresses" :> enforce_ipv6_cidr_notation(self.ip6))
                   @@ ("ipv6.dns" :> self.dns6)
                   @@ ("ipv6.dns-search" :> self.dns6_search)
                   @@ ("ipv6.dns-options" :> self.dns6_options)
                   @@ ("ipv6.ignore-auto-dns" :> self.dns6_ignore_auto)
                   @@ ("ipv6.ignore-auto-routes" :> self.gw6_ignore_auto)
                   @@ ("ipv6.routes" :> enforce_routes_format(self.routes6))
                   @@ ("ipv6.method" :> self.ipv6_method)
              ELSE EmptyDict
        \* if self.ipv4_method and self.ipv4_method != 'disabled': the key
        \* ipv4.may-fail, which the update above has set, is set again
        may_fail == IF DOMAIN ip # {} /\ Truthy(self.ipv4_method)
                       /\ self.ipv4_method # PyStr("disabled")
                    THEN ("ipv4.may-fail" :> self.may_fail4)
                    ELSE EmptyDict
        mac == IF Truthy(self.mac) THEN (mac_setting(self) :> self.mac)
               ELSE EmptyDict
        mtu == IF mtu_conn_type(self) THEN (mtu_setting(self) :> self.mtu)
               ELSE EmptyDict
        slave == IF slave_conn_type(self)
                 THEN ("connection.master" :> self.master)
                      @@ ("connection.slave-type" :> self.slave_type)
                 ELSE EmptyDict
        specific ==
            CASE self.type = PyStr("bond") -> ("mode" :> self.mode)
              [] slave_type_of(self.type) # None ->
                   Update(IF ~Truthy(self.slave_type)
                          THEN ("connection.slave-type" :> slave_type_of(self.type))
                          ELSE EmptyDict,
                          IF self.type = PyStr("bridge-slave")
                          THEN ("bridge-port.path-cost" :> self.path_cost)
                               @@ ("bridge-port.hairpin-mode" :> self.hairpin)
                               @@ ("bridge-port.priority" :> self.slavepriority)
                          ELSE EmptyDict)
              [] self.type = PyStr("bridge") ->
                   ("bridge.ageing-time" :> self.ageingtime)
                   @@ ("bridge.forward-delay" :> self.forwarddelay)
                   @@ ("bridge.hello-time" :> self.hellotime)
                   @@ ("bridge.max-age" :> self.maxage)
                   @@ ("bridge.priority" :> self.priority)
                   @@ ("bridge.stp" :> self.stp)
              [] self.type = PyStr("team") ->
                   Update(("team.runner" :> self.runner)
                          @@ ("team.runner-hwaddr-policy" :> self.runner_hwaddr_policy),
                          IF self.runner_fast_rate # None
                          THEN ("team.runner-fast-rate" :> self.runner_fast_rate)
                          ELSE EmptyDict)
              [] tunnel_conn_type(self) -> ("ip-tunnel.mode" :> self.type)
              [] self.type = PyStr("vlan") -> ("vlan.id" :> self.vlanid)
              [] self.type = PyStr("vxlan") -> ("vxlan.id" :> self.vxlan_id)
              [] self.type = PyStr("wifi") ->
                   Update(Update(
                       ("802-11-wireless.ssid" :> self.ssid)
                       @@ ("connection.slave-type" :>
                            IF Truthy(self.master)
                            THEN (IF self.slave_type = None THEN PyStr("bond")
                                  ELSE self.slave_type)
                            ELSE None),
                       Prefixed("802-11-wireless", self.wifi)),
                       Prefixed("802-11-wireless-security", self.wifi_sec))
              [] self.type = PyStr("macvlan") -> Prefixed("macvlan", self.macvlan)
              [] self.type = PyStr("infiniband") ->
                   IF Truthy(self.infiniband_mac)
                   THEN ("infiniband.mac-address" :> self.infiniband_mac)
                   ELSE EmptyDict
              [] OTHER -> EmptyDict
    IN Update(Update(Update(Update(Update(Update(
           common, ip), may_fail), mac), mtu), slave), specific)

\* the conversion loop that ends connection_options
convert(self, detect_change, setting, value) ==
    IF detect_change /\ setting \in {"vlan.id", "vxlan.id"} THEN to_text(value)
    ELSE IF detect_change /\ setting = mtu_setting(self) THEN mtu_to_string(value)
    ELSE IF ~detect_change /\ settings_type(setting) = "list" THEN list_to_string(value)
    ELSE IF settings_type(setting) = "bool" THEN bool_to_string(value)
    ELSE value

\* connection_options(detect_change): ok with the options, or the error raised
connection_options(self, detect_change) ==
    IF slave_type_mismatch(self)
    THEN [status |-> "fail", options |-> EmptyDict,
          msg |-> "Connection type cannot be combined with slave-type"]
    ELSE IF self.type = PyStr("macvlan") /\ DOMAIN self.macvlan = {}
       /\ self.state = "present"
    THEN [status |-> "raise", options |-> EmptyDict,
          msg |-> "type is macvlan but all of the following are missing: macvlan"]
    ELSE LET raw == raw_options(self)
         IN [status |-> "ok",
             options |-> [k \in DOMAIN raw |-> convert(self, detect_change, k, raw[k])],
             msg |-> ""]

(***************************************************************************)
(* The change detector.                                                    *)
(***************************************************************************)
Count(x, seq) == Cardinality({i \in 1..Len(seq) : seq[i] = x})

\* SortedEqual comparing the lists as they stand
SortedEqual_unsorted(a, b) == a = b

\* sorted(a) == sorted(b)
SortedEqual(a, b) ==
    /\ Len(a) = Len(b)
    /\ \A i \in 1..Len(a) : Count(a[i], a) = Count(a[i], b)

\* OrderedListSettings with every list compared as a sorted list
OrderedListSettings_none == {}

\* the settings whose lists are compared in order
OrderedListSettings ==
    {"ipv4.addresses", "ipv6.addresses", "ipv4.dns", "ipv6.dns",
     "ipv4.dns-search", "ipv6.dns-search"}

\* not (value not in (0, []) and not value): None and '' are skipped
\* a loop that skips every falsy value, 0 and [] among them
Considered_truthy(value) == Truthy(value)

Considered(value) ==
    \/ Truthy(value)
    \/ value.t = "int"
    \/ value.t = "bool"
    \/ value.t = "list"

\* a turn of the loop that takes a key the tool does not show, with a falsy
\* value asked for, as a match
compare_key_lenient(self, conn_info, key, given) ==
    LET present == key \in DOMAIN conn_info
        is_mac == present /\ key = mac_setting(self)
        shown == IF present THEN conn_info[key] ELSE None
        routes == IF key \in {"ipv4.routes", "ipv6.routes"} /\ shown # None
                  THEN get_route_params(shown) ELSE shown
        value == IF is_mac THEN PyStr(upper(given.v[1])) ELSE given
        current_value == IF is_mac /\ Truthy(routes)
                         THEN PyStr(upper(routes.v[1])) ELSE routes
        mtu == IF present /\ key = mtu_setting(self) /\ self.mtu = None
               THEN PyInt("0") ELSE self.mtu
    IN IF current_value.t = "list" /\ value.t = "list"
       THEN [before |-> current_value, after |-> value,
             differs |-> IF key \in OrderedListSettings
                         THEN current_value # value
                         ELSE ~SortedEqual(current_value.v, value.v)]
       ELSE IF /\ key = mtu_setting(self)
               /\ self.type = PyStr("dummy")
               /\ current_value = None
               /\ value = PyStr("auto")
               /\ mtu = None
       THEN [before |-> current_value, after |-> None, differs |-> FALSE]
       ELSE [before |-> current_value, after |-> to_text(value),
             differs |-> IF ~present /\ ~Truthy(value) THEN FALSE
                         ELSE current_value # to_text(value)]

\* one turn of the loop of _compare_conn_params, for a considered key:
\* the values recorded in the diff and whether they differ.  mtu is
\* self.mtu as the loop has left it when the comparison is made.
compare_key(self, conn_info, key, given) ==
    LET present == key \in DOMAIN conn_info
        is_mac == present /\ key = mac_setting(self)
        shown == IF present THEN conn_info[key] ELSE None
        routes == IF key \in {"ipv4.routes", "ipv6.routes"} /\ shown # None
                  THEN get_route_params(shown) ELSE shown
        \* MAC addresses are case insensitive
        value == IF is_mac THEN PyStr(upper(given.v[1])) ELSE given
        current_value == IF is_mac /\ Truthy(routes)
                         THEN PyStr(upper(routes.v[1])) ELSE routes
        mtu == IF present /\ key = mtu_setting(self) /\ self.mtu = None
               THEN PyInt("0") ELSE self.mtu
    IN IF current_value.t = "list" /\ value.t = "list"
       THEN [before |-> current_value, after |-> value,
             differs |-> IF key \in OrderedListSettings
                         THEN current_value # value
                         ELSE ~SortedEqual(current_value.v, value.v)]
       ELSE IF /\ key = mtu_setting(self)
               /\ self.type = PyStr("dummy")
               /\ current_value = None
               /\ value = PyStr("auto")
               /\ mtu = None
       THEN [before |-> current_value, after |-> None, differs |-> FALSE]
       ELSE [before |-> current_value, after |-> to_text(value),
             differs |-> current_value # to_text(value)]

\* _compare_conn_params(conn_info, options): (changed, diff) and the mtu
\* field as the loop leaves it
_compare_conn_params(self, conn_info, options) ==
    LET keys == {k \in DOMAIN options : Considered(options[k])}
        each == [k \in keys |-> compare_key(self, conn_info, k, options[k])]
    IN [changed |-> \E k \in keys : each[k].differs,
        diff |-> [before |-> [k \in keys |-> each[k].before],
                  after |-> [k \in keys |-> each[k].after]],
        mtu |-> IF /\ mtu_setting(self) \in keys
                   /\ mtu_setting(self) \in DOMAIN conn_info
                   /\ self.mtu = None
                THEN PyInt("0") ELSE self.mtu]

\* the options is_connection_changed compares: the interface name, then
\* connection_options(detect_change=True)
detect_options(self) ==
    LET co == connection_options(self, TRUE)
        base == IF self.type = PyStr("vpn") /\ self.ifname = None THEN EmptyDict
                ELSE ("connection.interface-name" :> self.ifname)
    IN [status |-> co.status, msg |-> co.msg, options |-> Update(base, co.options)]

(***************************************************************************)
(* Building the con add / con modify command.                              *)
(***************************************************************************)
\* the order in which the settings enter the options dict
KeyOrder ==
    <<"connection.interface-name", "connection.autoconnect",
      "connection.autoconnect-priority",
      "ipv4.addresses", "ipv4.dns", "ipv4.dns-search", "ipv4.dns-options",
      "ipv4.ignore-auto-dns", "ipv4.gateway", "ipv4.ignore-auto-routes",
      "ipv4.routes", "ipv4.routing-rules", "ipv4.never-default",
      "ipv4.method", "ipv4.may-fail",
      "ipv6.addresses", "ipv6.dns", "ipv6.dns-search", "ipv6.dns-options",
      "ipv6.ignore-auto-dns", "ipv6.ignore-auto-routes", "ipv6.routes",
      "ipv6.method",
      "bridge.mac-address", "802-3-ethernet.cloned-mac-address",
      "802-3-ethernet.mtu", "infiniband.mtu",
      "connection.master", "connection.slave-type",
      "mode",
      "bridge.ageing-time", "bridge.forward-delay", "bridge.hello-time",
      "bridge.max-age", "bridge.priority", "bridge.stp",
      "team.runner", "team.runner-hwaddr-policy", "team.runner-fast-rate",
      "bridge-port.path-cost", "bridge-port.hairpin-mode",
      "bridge-port.priority",
      "ip-tunnel.mode", "vlan.id", "vxlan.id",
      "802-11-wireless.ssid", "802-11-wireless.mode", "802-11-wireless.band",
      "802-11-wireless-security.key-mgmt", "802-11-wireless-security.psk",
      "802-11-wireless-security.pmf", "802-11-wireless-security.proto",
      "macvlan.mode", "macvlan.parent", "macvlan.promiscuous",
      "infiniband.mac-address">>

\* the options connection_update passes on
update_options(self, nmcli_command) ==
    LET co == connection_options(self, FALSE)
        ifname == IF nmcli_command = "create" /\ self.ifname = None
                  THEN PyStr(self.conn_name) ELSE self.ifname
        base == IF self.type = PyStr("vpn") /\ self.ifname = None THEN EmptyDict
                ELSE ("connection.interface-name" :> ifname)
    IN [status |-> co.status, msg |-> co.msg, options |-> Update(base, co.options)]

RECURSIVE option_args(_, _)
\* cmd.extend([key, value]) for every option that is set and no secret
option_args(options, order) ==
    IF Len(order) = 0 THEN <<>>
    ELSE LET key == Head(order)
         IN (IF key \in DOMAIN options /\ options[key] # None
                /\ key \notin SECRET_OPTIONS
             THEN <<key, to_text(options[key]).v[1]>> ELSE <<>>)
            \o option_args(options, Tail(order))

RECURSIVE secret_commands(_, _)
\* 'set <key> <value>' for every secret option that is set
secret_commands(options, order) ==
    IF Len(order) = 0 THEN <<>>
    ELSE LET key == Head(order)
         IN (IF key \in DOMAIN options /\ options[key] # None
                /\ key \in SECRET_OPTIONS
             THEN <<"set " \o key \o " " \o to_text(options[key]).v[1]>> ELSE <<>>)
            \o secret_commands(options, Tail(order))

\* the argument vector of connection_update(nmcli_command)
update_args(self, nmcli_command, options) ==
    (IF nmcli_command = "create"
     THEN <<"con", "add", "type",
            IF tunnel_conn_type(self) THEN "ip-tunnel" ELSE to_text(self.type).v[1],
            "con-name">>
     ELSE <<"con", "modify">>)
    \o <<self.conn_name>> \o option_args(options, KeyOrder)

(***************************************************************************)
(* The external tool.  Its store either lists the named connection or not; *)
(* conn_info is what `con show` reports for it, as show_connection parses  *)
(* it.  A command that names a connection the store does not hold fails.   *)
(***************************************************************************)
\* the properties `con edit type wifi` prints for a setting
tool_properties(setting) ==
    IF setting = "802-11-wireless" THEN {"ssid", "mode"}
    ELSE {"key-mgmt", "psk", "proto"}

\* what the tool reports for the stored connection
observed(type, autoconnect, mtu) ==
    [k \in {"connection.type"} |-> PyStr(type)]
    @@ [k \in {"connection.autoconnect"} |-> PyStr(autoconnect)]
    @@ [k \in {"802-3-ethernet.mtu", "infiniband.mtu"} |-> PyStr(mtu)]
    @@ [k \in {"connection.interface-name"} |-> PyStr("eth1")]
    @@ [k \in {"connection.master"} |-> PyStr("team0")]
    @@ [k \in {"connection.slave-type"} |-> None]
    @@ [k \in {"ipv4.dns"} |-> PyList(<<"192.0.2.53">>)]
    @@ [k \in {"ipv6.dns"} |-> PyList(<<>>)]
    @@ [k \in {"802-11-wireless.ssid"} |-> PyStr("net")]
    @@ [k \in {"802-11-wireless.mode"} |-> PyStr("ap")]
    @@ [k \in {"802-11-wireless-security.key-mgmt"} |-> PyStr("wpa-psk")]
    @@ [k \in {"802-11-wireless-security.psk"} |-> PyStr("secret")]
    @@ [k \in {"macvlan.mode"} |-> PyStr("1")]
    @@ [k \in {"macvlan.parent"} |-> PyStr("eth0")]
    @@ [k \in {"macvlan.promiscuous"} |-> PyStr("yes")]
    @@ [k \in {"connection.autoconnect-priority"} |-> PyStr("0")]
    @@ [k \in {"ipv4.method", "ipv6.method"} |-> PyStr("auto")]
    @@ [k \in {"ipv4.gateway", "ipv6.gateway"} |-> None]
    @@ [k \in {"ipv4.may-fail"} |-> PyStr("yes")]
    @@ [k \in {"ipv4.never-default", "ipv4.ignore-auto-dns",
               "ipv4.ignore-auto-routes", "ipv6.ignore-auto-dns",
               "ipv6.ignore-auto-routes"} |-> PyStr("no")]
    @@ [k \in {"ipv4.addresses", "ipv6.addresses", "ipv4.dns-search",
               "ipv6.dns-search", "ipv4.dns-options", "ipv6.dns-options",
               "ipv4.routes", "ipv6.routes", "ipv4.routing-rules",
               "802-11-wireless-security.proto"} |-> PyList(<<>>)]
    @@ [k \in {"802-3-ethernet.cloned-mac-address", "bridge.mac-address",
               "infiniband.mac-address"} |-> None]

\* the exit codes a command naming the connection can return
rcs_named == IF tool.exists THEN RCs ELSE NonzeroRCs

stderr(cmd, r) == IF r = 0 THEN "" ELSE "Error: " \o cmd

\* one run_command call: the command, its arguments, its stdin, its exit
\* code, the lines it printed and its stderr
call(cmd, args, data, r, out) ==
    [cmd |-> cmd, args |-> args, data |-> data, rc |-> r, out |-> out,
     err |-> stderr(cmd, r)]

(***************************************************************************)
(* The results a run can end with.                                         *)
(***************************************************************************)
running == [kind |-> "running", changed |-> None, rc |-> RcNone, msg |-> "",
            stderr |-> ""]

\* module.exit_json(changed=...)
exit_json(c) == [kind |-> "exit", changed |-> PyBool(c), rc |-> RcNone,
                 msg |-> "", stderr |-> ""]

\* module.fail_json(msg=..., rc=...)
fail_json(msg, r) == [kind |-> "fail", changed |-> None, rc |-> r, msg |-> msg,
                      stderr |-> ""]

\* an exception nothing catches
traceback(msg) == [kind |-> "crash", changed |-> None, rc |-> RcNone,
                   msg |-> msg, stderr |-> ""]

\* finish, reporting changed=true whether or not a command has run
finish_always_changed(r, e) ==
    [kind |-> "exit", changed |-> PyBool(TRUE), rc |-> RcNone, msg |-> "",
     stderr |-> e]

\* the end of main: changed is whether any command has set rc
finish(r, e) == [kind |-> "exit", changed |-> PyBool(r # RcNone), rc |-> RcNone,
                 msg |-> "", stderr |-> e]

\* the end of the present branch: a nonzero rc is fatal
finish_present(r, e) ==
    IF r # RcNone /\ r # 0 THEN fail_json(e, r) ELSE finish(r, e)

\* finish_checked without the test of the exit code
finish_unchecked(r, e) == finish(r, e)

\* the end of the absent, up and down branches once their last command ran
finish_checked(r, e) == IF r # 0 THEN fail_json(e, r) ELSE finish(r, e)

(***************************************************************************)
(* Init: the module has parsed its arguments and constructed the Nmcli     *)
(* object (the field copies of __init__).                                  *)
(***************************************************************************)
WifiChoices ==
    {EmptyDict,
     [k \in {"mode"} |-> PyStr("ap")],
     ("ssid" :> PyStr("other")) @@ ("mode" :> PyStr("ap")) @@ ("band" :> PyStr("a"))}

WifiSecChoices ==
    {EmptyDict,
     ("key-mgmt" :> PyStr("wpa-psk")) @@ ("psk" :> PyStr("secret")),
     ("key-mgmt" :> PyStr("wpa-psk")) @@ ("psk" :> PyStr("secret"))
        @@ ("pmf" :> PyInt("1"))}

MacvlanChoices ==
    {EmptyDict, ("mode" :> PyInt("1")) @@ ("parent" :> PyStr("eth0"))}

\* the defaults of the argument specification for the options the model
\* carries; an option with no default is None
DefaultParams ==
    [conn_reload |-> FALSE,
     ignore_unsupported_suboptions |-> FALSE,
     autoconnect |-> PyBool(TRUE),
     autoconnect_priority |-> None,
     type |-> None, ifname |-> None, master |-> None, slave_type |-> None,
     ip4 |-> None, gw4 |-> None, gw4_ignore_auto |-> PyBool(FALSE),
     routes4 |-> None, routing_rules4 |-> None,
     never_default4 |-> PyBool(FALSE),
     dns4 |-> None, dns4_search |-> None, dns4_options |-> None,
     dns4_ignore_auto |-> PyBool(FALSE),
     method4 |-> None, may_fail4 |-> PyBool(TRUE),
     ip6 |-> None, gw6_ignore_auto |-> PyBool(FALSE),
     dns6 |-> None, dns6_search |-> None, dns6_options |-> None,
     dns6_ignore_auto |-> PyBool(FALSE),
     routes6 |-> None, method6 |-> None,
     mode |-> PyStr("balance-rr"),
     mtu |-> None, mac |-> None,
     stp |-> PyBool(TRUE), priority |-> PyInt("128"),
     slavepriority |-> PyInt("32"), forwarddelay |-> PyInt("15"),
     hellotime |-> PyInt("2"), maxage |-> PyInt("20"),
     ageingtime |-> PyInt("300"), hairpin |-> PyBool(FALSE),
     path_cost |-> PyInt("100"),
     runner |-> PyStr("roundrobin"), runner_hwaddr_policy |-> None,
     runner_fast_rate |-> None,
     vlanid |-> None, vxlan_id |-> None,
     ssid |-> None, wifi |-> EmptyDict, wifi_sec |-> EmptyDict,
     macvlan |-> EmptyDict,
     infiniband_mac |-> None]

\* the arguments of a task that exercises the driver: the state, the type
\* and the options that steer main()
DriverChoices ==
    {p \in [state : StateChoices,
            conn_name : {"c1"},
            conn_reload : BOOLEAN,
            ignore_unsupported_suboptions : BOOLEAN,
            type : {None} \cup StrSet(TypeChoices),
            ifname : {None, PyStr("eth1")},
            master : {None, PyStr("team0")},
            mtu : {None, PyInt("1500")},
            dns4 : {None, PyList(<<"192.0.2.53">>)},
            ssid : {None, PyStr("net")},
            wifi : WifiChoices,
            wifi_sec : WifiSecChoices,
            macvlan : MacvlanChoices] :
        \* the options of one connection type are given with that type
        /\ (p.type # PyStr("wifi") =>
              /\ p.wifi = EmptyDict /\ p.wifi_sec = EmptyDict /\ p.ssid = None
              /\ ~p.ignore_unsupported_suboptions)
        /\ (p.type = PyStr("wifi") => p.ssid # None)
        /\ (p.type # PyStr("macvlan") => p.macvlan = EmptyDict)
        /\ (p.type # PyStr("team-slave") => p.master = None /\ p.ifname = None)
        /\ ((p.master = None) <=> (p.ifname = None))}

\* the arguments of a task that gives a gateway, never_default4 or both
GatewayChoices ==
    {g @@ n @@ p : g \in {EmptyDict, [k \in {"gw4"} |-> PyStr("192.0.2.254")]},
                   n \in {EmptyDict} \cup
                         {[k \in {"never_default4"} |-> PyBool(b)] : b \in BOOLEAN},
                   p \in [state : StateChoices, conn_name : {"c1"},
                          type : StrSet({"ethernet"})]}

\* the arguments of a task that names a slave_type, a master or both
SlaveChoices ==
    [state : StateChoices, conn_name : {"c1"},
     type : StrSet({"ethernet", "bond-slave", "bridge-slave", "team-slave"}),
     slave_type : {None} \cup StrSet({"bond", "bridge", "team"}),
     master : {None, PyStr("team0")},
     ifname : {None, PyStr("eth1")}]

\* the arguments of a task that configures a team's runner
TeamChoices ==
    [state : StateChoices, conn_name : {"c1"},
     type : StrSet({"team"}),
     runner : StrSet({"roundrobin", "activebackup", "lacp"}),
     runner_hwaddr_policy : {None, PyStr("same_all")},
     runner_fast_rate : {None, PyBool(TRUE)}]

\* what a task can ask for
ArgChoices == DriverChoices \cup GatewayChoices \cup SlaveChoices \cup TeamChoices

\* module.params: the task's arguments, and the default of every option the
\* task leaves out
set_defaults(args) == args @@ DefaultParams

ToolChoices ==
    {[exists |-> e, conn_info |-> observed(t, a, m)] :
        e \in BOOLEAN, t \in {"802-3-ethernet", "bridge", "dummy"},
        a \in {"yes", "no"}, m \in {"auto", "1500"}}

\* Nmcli.__init__: the fields are copies of the parameters; the IP methods
\* are the ones given, or follow from the type and the addresses
__init__(params) ==
    [k \in DOMAIN params |-> params[k]]
    @@ [ipv4_method |->
            IF Truthy(params.method4) THEN params.method4
            ELSE IF params.type \in StrSet({"dummy", "macvlan", "wireguard"})
                    /\ ~Truthy(params.ip4)
            THEN PyStr("disabled")
            ELSE IF Truthy(params.ip4) THEN PyStr("manual")
            ELSE None,
        ipv6_method |->
            IF Truthy(params.method6) THEN params.method6
            ELSE IF params.type \in StrSet({"dummy", "macvlan", "wireguard"})
                    /\ ~Truthy(params.ip6)
            THEN PyStr("disabled")
            ELSE IF Truthy(params.ip6) THEN PyStr("manual")
            ELSE None,
        edit_commands |-> <<>>]

\* main() begins: the Nmcli object is constructed and nothing has run
Start ==
    /\ nmcli = __init__(module.params)
    /\ pc = "main"
    /\ rc = RcNone
    /\ err = ""
    /\ changed = None
    /\ diff = NoDiff
    /\ unsupported_properties = EmptyDict
    /\ result = running
    /\ cmds = <<>>

Init ==
    /\ module \in {[args |-> a, params |-> set_defaults(a), check_mode |-> c] :
                      a \in ArgChoices, c \in BOOLEAN}
    /\ Start
    /\ tool \in ToolChoices
    \* the stored connection's type matters only when the type is inferred,
    \* and nothing is read from a connection that is not stored
    /\ (module.params.type # None \/ ~tool.exists
          => tool.conn_info["connection.type"] = PyStr("802-3-ethernet"))
    /\ (~tool.exists => /\ tool.conn_info["connection.autoconnect"] = PyStr("yes")
                        /\ tool.conn_info["802-3-ethernet.mtu"] = PyStr("auto"))
    /\ interfered = 0

(***************************************************************************)
(* main().  Each action is one step of main up to and including the next   *)
(* call of the external tool and what main does with its answer.           *)
(***************************************************************************)
\* the run ends with a result
stop(res) == pc' = "done" /\ result' = res

\* the run goes on at the step next
goto(next) == pc' = next /\ result' = result

\* state_branch with state=up sent down the present branch
state_branch_up_as_present == IF nmcli.state = "up" THEN "present" ELSE nmcli.state

\* the branch of main for the requested state
state_branch == nmcli.state

\* check_mode_or without the test of check mode
check_mode_ignored(next) == goto(next)

\* if module.check_mode: module.exit_json(changed=True), before a command
\* that would change the store
check_mode_or(next) ==
    IF module.check_mode THEN stop(exit_json(TRUE)) ELSE goto(next)

\* after_modify going on to the create without the second existence check
after_modify_create == goto("present_create")

\* after_modify without the reload
after_modify_no_reload == goto("present_exists2")

\* if nmcli.conn_reload: reload_connection(), after modify_connection()
after_modify ==
    IF nmcli.conn_reload THEN goto("present_reload") ELSE goto("present_exists2")

\* mutually_exclusive=[['never_default4', 'gw4'], ...]: the arguments of the
\* task that belong to the group, counted before the defaults are set
mutually_exclusive == {"never_default4", "gw4"}

\* check_mutually_exclusive letting every combination of arguments pass
check_mutually_exclusive_skipped(args) == ""

check_mutually_exclusive(args) ==
    IF Cardinality({k \in mutually_exclusive \cap DOMAIN args : args[k] # None}) > 1
    THEN "parameters are mutually exclusive: never_default4|gw4"
    ELSE ""

\* extra_options_validation, which ends __init__
extra_options_validation(self) ==
    IF /\ self.type \notin StrSet({"bridge-slave", "team-slave", "bond-slave"})
       /\ self.master = None /\ self.slave_type # None
    THEN "'master' option is required when 'slave_type' is specified."
    ELSE ""

\* the checks main makes before the tool is used: the arguments, the Nmcli
\* object's own validation, the team checks and the team-slave checks
validation_error(args, self) ==
    IF check_mutually_exclusive(args) # "" THEN check_mutually_exclusive(args)
    ELSE IF extra_options_validation(self) # "" THEN extra_options_validation(self)
    ELSE IF self.type = PyStr("team") /\ Truthy(self.runner_hwaddr_policy)
            /\ self.runner # PyStr("activebackup")
    THEN "Runner-hwaddr-policy is only allowed for runner activebackup"
    ELSE IF self.type = PyStr("team") /\ self.runner_fast_rate # None
            /\ self.runner # PyStr("lacp")
    THEN "runner-fast-rate is only allowed for runner lacp"
    ELSE IF (self.type = PyStr("team-slave") \/ self.slave_type = PyStr("team"))
            /\ self.master = None
    THEN "Please specify a name for the master"
    ELSE IF (self.type = PyStr("team-slave") \/ self.slave_type = PyStr("team"))
            /\ self.ifname = None
    THEN "Please specify an interface name for the connection"
    ELSE ""

\* drop_unsupported leaving every sub-option in place
drop_unsupported_nothing(self, unsupported) == self

\* a deletion that empties both dicts
drop_unsupported_all(self, unsupported) ==
    [self EXCEPT !.wifi = EmptyDict, !.wifi_sec = EmptyDict]

\* del getattr(nmcli, setting_key)[property] for every unsupported property
drop_unsupported(self, unsupported) ==
    IF self.ignore_unsupported_suboptions /\ DOMAIN unsupported # {}
    THEN [self EXCEPT
            !.wifi = IF "wifi" \in DOMAIN unsupported
                     THEN [k \in DOMAIN self.wifi \ unsupported["wifi"] |-> self.wifi[k]]
                     ELSE @,
            !.wifi_sec = IF "wifi_sec" \in DOMAIN unsupported
                         THEN [k \in DOMAIN self.wifi_sec \ unsupported["wifi_sec"]
                                 |-> self.wifi_sec[k]]
                         ELSE @]
    ELSE self

\* supported_commands with the session saving what it set
supported_commands_saving(setting) == <<"print " \o setting, "save", "quit">>

\* the stdin of the con edit session get_supported_properties opens
supported_commands(setting) ==
    (IF setting = "802-11-wireless-security"
     THEN <<"set 802-11-wireless-security.psk FAKEVALUE">> ELSE <<>>)
    \o <<"print " \o setting, "quit", "yes">>

main_checks ==
    /\ pc = "main"
    /\ IF validation_error(module.args, nmcli) # ""
       THEN stop(fail_json(validation_error(module.args, nmcli), RcNone))
       ELSE IF nmcli.type = PyStr("wifi") /\ DOMAIN nmcli.wifi # {}
       THEN goto("check_wifi")
       ELSE IF nmcli.type = PyStr("wifi") /\ DOMAIN nmcli.wifi_sec # {}
       THEN goto("check_wifi_sec")
       ELSE goto(state_branch)
    /\ UNCHANGED <<module, diff, nmcli, rc, err, changed, unsupported_properties,
                   cmds, tool, interfered>>

\* if nmcli.wifi: drop wifi.ssid, then check_for_unsupported_properties
check_wifi ==
    /\ pc = "check_wifi"
    /\ \E r \in RCs :
        LET wifi == [k \in DOMAIN nmcli.wifi \ {"ssid"} |-> nmcli.wifi[k]]
            unsupported == DOMAIN wifi \ tool_properties("802-11-wireless")
            found == ("wifi" :> unsupported) @@ unsupported_properties
            self == [nmcli EXCEPT !.wifi = wifi]
        IN /\ cmds' = Append(cmds, call("edit", <<"type", to_text(nmcli.type).v[1]>>,
                                        supported_commands("802-11-wireless"), r, <<>>))
           /\ IF r # 0
              THEN /\ stop(traceback(stderr("edit", r)))
                   /\ nmcli' = self
                   /\ UNCHANGED unsupported_properties
              ELSE IF unsupported # {} /\ ~nmcli.ignore_unsupported_suboptions
              THEN /\ stop(fail_json("Invalid or unsupported option(s)", RcNone))
                   /\ nmcli' = self
                   /\ UNCHANGED unsupported_properties
              ELSE /\ unsupported_properties' = found
                   /\ IF DOMAIN nmcli.wifi_sec # {}
                      THEN goto("check_wifi_sec") /\ nmcli' = self
                      ELSE goto(state_branch) /\ nmcli' = drop_unsupported(self, found)
    /\ UNCHANGED <<module, diff, rc, err, changed, tool, interfered>>

\* if nmcli.wifi_sec: check_for_unsupported_properties, then the dropping
check_wifi_sec ==
    /\ pc = "check_wifi_sec"
    /\ \E r \in RCs :
        LET unsupported == DOMAIN nmcli.wifi_sec
                           \ tool_properties("802-11-wireless-security")
            found == ("wifi_sec" :> unsupported) @@ unsupported_properties
        IN /\ cmds' = Append(cmds, call("edit", <<"type", to_text(nmcli.type).v[1]>>,
                                supported_commands("802-11-wireless-security"), r, <<>>))
           /\ IF r # 0
              THEN /\ stop(traceback(stderr("edit", r)))
                   /\ UNCHANGED <<nmcli, unsupported_properties>>
              ELSE IF unsupported # {} /\ ~nmcli.ignore_unsupported_suboptions
              THEN /\ stop(fail_json("Invalid or unsupported option(s)", RcNone))
                   /\ UNCHANGED <<nmcli, unsupported_properties>>
              ELSE /\ unsupported_properties' = found
                   /\ goto(state_branch)
                   /\ nmcli' = drop_unsupported(nmcli, found)
    /\ UNCHANGED <<module, diff, rc, err, changed, tool, interfered>>

\* connection_exists(): the listing, and whether it holds the name
list_args == <<"--fields", "name", "--terse", "con", "show">>

list_call(r) ==
    call("list", list_args, <<>>, r,
         IF r = 0 /\ tool.exists THEN <<nmcli.conn_name>> ELSE <<>>)

\* exists_in taking any listing that succeeded as holding the name
exists_in_any(c) == c.rc = 0

exists_in(c) == nmcli.conn_name \in {c.out[i] : i \in 1..Len(c.out)}

(******************************* absent ***********************************)
absent_exists ==
    /\ pc = "absent"
    /\ \E r \in RCs :
        /\ cmds' = Append(cmds, list_call(r))
        /\ IF r # 0 THEN stop(fail_json(stderr("list", r), RcNone))
           ELSE IF exists_in(list_call(r))
           THEN check_mode_or("absent_down")
           ELSE stop(finish(rc, err))
    /\ UNCHANGED <<module, diff, nmcli, rc, err, changed, unsupported_properties,
                   tool, interfered>>

absent_down ==
    /\ pc = "absent_down"
    /\ \E r \in rcs_named :
        /\ cmds' = Append(cmds, call("down", <<nmcli.conn_name>>, <<>>, r, <<>>))
        /\ rc' = r
        /\ err' = stderr("down", r)
    /\ goto("absent_remove")
    /\ UNCHANGED <<module, diff, nmcli, changed, unsupported_properties, tool, interfered>>

absent_remove ==
    /\ pc = "absent_remove"
    /\ \E r \in rcs_named :
        /\ cmds' = Append(cmds, call("del", <<nmcli.conn_name>>, <<>>, r, <<>>))
        /\ rc' = r
        /\ err' = stderr("del", r)
        /\ tool' = IF r = 0 THEN [tool EXCEPT !.exists = FALSE] ELSE tool
        /\ stop(finish_checked(r, stderr("del", r)))
    /\ UNCHANGED <<module, diff, nmcli, changed, unsupported_properties, interfered>>

(******************************* present **********************************)
\* the first connection_exists() of the present branch; with the type given
\* is_connection_changed maps the options before it shows the connection
present_exists ==
    /\ pc = "present"
    /\ \E r \in RCs :
        /\ cmds' = Append(cmds, list_call(r))
        /\ IF r # 0 THEN stop(fail_json(stderr("list", r), RcNone))
           ELSE IF exists_in(list_call(r))
           THEN IF ~Truthy(nmcli.type) THEN goto("present_type")
                ELSE IF detect_options(nmcli).status # "ok"
                THEN stop(fail_json(detect_options(nmcli).msg, RcNone))
                ELSE goto("present_compare")
           ELSE goto("present_exists2")
    /\ UNCHANGED <<module, diff, nmcli, rc, err, changed, unsupported_properties,
                   tool, interfered>>

show_args == <<"--show-secrets", "con", "show", nmcli.conn_name>>

\* is_connection_changed with no type given: the type is read from the
\* connection shown, 802-11-wireless read as wifi
present_type ==
    /\ pc = "present_type"
    /\ \E r \in rcs_named :
        LET current_con_type == tool.conn_info["connection.type"]
            self == IF Truthy(current_con_type)
                    THEN [nmcli EXCEPT !.type =
                            IF current_con_type = PyStr("802-11-wireless")
                            THEN PyStr("wifi") ELSE current_con_type]
                    ELSE nmcli
        IN /\ cmds' = Append(cmds, call("show", show_args, <<>>, r, <<>>))
           /\ IF r # 0
              THEN stop(fail_json(stderr("show", r), RcNone)) /\ UNCHANGED nmcli
              ELSE /\ nmcli' = self
                   /\ IF detect_options(self).status # "ok"
                      THEN stop(fail_json(detect_options(self).msg, RcNone))
                      ELSE goto("present_compare")
    /\ UNCHANGED <<module, diff, rc, err, changed, unsupported_properties, tool,
                   interfered>>

\* the end of is_connection_changed, and main's use of its answer
present_compare ==
    /\ pc = "present_compare"
    /\ \E r \in rcs_named :
        LET answer == _compare_conn_params(nmcli, tool.conn_info,
                                           detect_options(nmcli).options)
        IN /\ cmds' = Append(cmds, call("show", show_args, <<>>, r, <<>>))
           /\ IF r # 0
              THEN /\ stop(fail_json(stderr("show", r), RcNone))
                   /\ UNCHANGED <<nmcli, changed, diff>>
              ELSE /\ nmcli' = [nmcli EXCEPT !.mtu = answer.mtu]
                   /\ changed' = PyBool(answer.changed)
                   /\ diff' = answer.diff
                   /\ IF answer.changed
                      THEN check_mode_or("present_modify")
                      ELSE IF module.check_mode THEN stop(exit_json(FALSE))
                           ELSE goto("present_exists2")
    /\ UNCHANGED <<module, rc, err, unsupported_properties, tool, interfered>>

\* modify_connection: connection_update('modify')
present_modify ==
    /\ pc = "present_modify"
    /\ LET update == update_options(nmcli, "modify")
           edit_commands == nmcli.edit_commands \o secret_commands(update.options, KeyOrder)
       IN IF update.status # "ok"
          THEN /\ stop(fail_json(update.msg, RcNone))
               /\ UNCHANGED <<nmcli, rc, err, cmds>>
          ELSE \E r \in rcs_named :
               /\ cmds' = Append(cmds, call("modify",
                              update_args(nmcli, "modify", update.options), <<>>, r, <<>>))
               /\ nmcli' = [nmcli EXCEPT !.edit_commands = edit_commands]
               /\ rc' = r
               /\ err' = stderr("modify", r)
               /\ IF r = 0 /\ Len(edit_commands) > 0 THEN goto("present_modify_edit")
                  ELSE after_modify
    /\ UNCHANGED <<module, diff, changed, unsupported_properties, tool, interfered>>

\* edit_connection: the secrets, then save and quit
edit_call(r) ==
    call("edit", <<nmcli.conn_name>>, nmcli.edit_commands \o <<"save", "quit">>, r, <<>>)

present_modify_edit ==
    /\ pc = "present_modify_edit"
    /\ \E r \in rcs_named :
        /\ cmds' = Append(cmds, edit_call(r))
        /\ rc' = r
        /\ err' = stderr("edit", r)
    /\ after_modify
    /\ UNCHANGED <<module, diff, nmcli, changed, unsupported_properties, tool, interfered>>

present_reload ==
    /\ pc = "present_reload"
    /\ \E r \in RCs :
        /\ cmds' = Append(cmds, call("reload", <<>>, <<>>, r, <<>>))
        /\ rc' = r
        /\ err' = stderr("reload", r)
    /\ goto("present_exists2")
    /\ UNCHANGED <<module, diff, nmcli, changed, unsupported_properties, tool, interfered>>

\* if not nmcli.connection_exists(): the second listing of the present branch
present_exists2 ==
    /\ pc = "present_exists2"
    /\ \E r \in RCs :
        /\ cmds' = Append(cmds, list_call(r))
        /\ IF r # 0 THEN stop(fail_json(stderr("list", r), RcNone))
           ELSE IF ~exists_in(list_call(r))
           THEN check_mode_or("present_create")
           ELSE stop(finish_present(rc, err))
    /\ UNCHANGED <<module, diff, nmcli, rc, err, changed, unsupported_properties,
                   tool, interfered>>

\* create_connection: connection_update('create')
present_create ==
    /\ pc = "present_create"
    /\ LET update == update_options(nmcli, "create")
           edit_commands == nmcli.edit_commands \o secret_commands(update.options, KeyOrder)
       IN IF update.status # "ok"
          THEN /\ stop(fail_json(update.msg, RcNone))
               /\ UNCHANGED <<nmcli, rc, err, cmds, tool>>
          ELSE \E r \in RCs :
               /\ cmds' = Append(cmds, call("add",
                              update_args(nmcli, "create", update.options), <<>>, r, <<>>))
               /\ nmcli' = [nmcli EXCEPT !.edit_commands = edit_commands]
               /\ rc' = r
               /\ err' = stderr("add", r)
               /\ tool' = IF r = 0 THEN [tool EXCEPT !.exists = TRUE] ELSE tool
               /\ IF r = 0 /\ Len(edit_commands) > 0 THEN goto("present_create_edit")
                  ELSE IF create_connection_up(nmcli) THEN goto("present_create_up")
                  ELSE stop(finish_present(r, stderr("add", r)))
    /\ UNCHANGED <<module, diff, changed, unsupported_properties, interfered>>

present_create_edit ==
    /\ pc = "present_create_edit"
    /\ \E r \in rcs_named :
        /\ cmds' = Append(cmds, edit_call(r))
        /\ rc' = r
        /\ err' = stderr("edit", r)
        /\ IF create_connection_up(nmcli) THEN goto("present_create_up")
           ELSE stop(finish_present(r, stderr("edit", r)))
    /\ UNCHANGED <<module, diff, nmcli, changed, unsupported_properties, tool, interfered>>

present_create_up ==
    /\ pc = "present_create_up"
    /\ \E r \in rcs_named :
        /\ cmds' = Append(cmds, call("up", <<nmcli.conn_name>>, <<>>, r, <<>>))
        /\ rc' = r
        /\ err' = stderr("up", r)
        /\ stop(finish_present(r, stderr("up", r)))
    /\ UNCHANGED <<module, diff, nmcli, changed, unsupported_properties, tool, interfered>>

(******************************* up and down ******************************)
up_exists ==
    /\ pc = "up"
    /\ \E r \in RCs :
        /\ cmds' = Append(cmds, list_call(r))
        /\ IF r # 0 THEN stop(fail_json(stderr("list", r), RcNone))
           ELSE IF exists_in(list_call(r))
           THEN check_mode_or(IF nmcli.conn_reload THEN "up_reload" ELSE "up_up")
           ELSE stop(finish(rc, err))
    /\ UNCHANGED <<module, diff, nmcli, rc, err, changed, unsupported_properties,
                   tool, interfered>>

\* up_reload giving up when con reload fails
up_reload_checked ==
    /\ pc = "up_reload"
    /\ \E r \in RCs :
        /\ cmds' = Append(cmds, call("reload", <<>>, <<>>, r, <<>>))
        /\ rc' = r
        /\ err' = stderr("reload", r)
        /\ IF r # 0 THEN stop(fail_json(stderr("reload", r), r)) ELSE goto("up_up")
    /\ UNCHANGED <<module, diff, nmcli, changed, unsupported_properties, tool, interfered>>

up_reload ==
    /\ pc = "up_reload"
    /\ \E r \in RCs :
        /\ cmds' = Append(cmds, call("reload", <<>>, <<>>, r, <<>>))
        /\ rc' = r
        /\ err' = stderr("reload", r)
    /\ goto("up_up")
    /\ UNCHANGED <<module, diff, nmcli, changed, unsupported_properties, tool, interfered>>

up_up ==
    /\ pc = "up_up"
    /\ \E r \in rcs_named :
        /\ cmds' = Append(cmds, call("up", <<nmcli.conn_name>>, <<>>, r, <<>>))
        /\ rc' = r
        /\ err' = stderr("up", r)
        /\ stop(finish_checked(r, stderr("up", r)))
    /\ UNCHANGED <<module, diff, nmcli, changed, unsupported_properties, tool, interfered>>

down_exists ==
    /\ pc = "down"
    /\ \E r \in RCs :
        /\ cmds' = Append(cmds, list_call(r))
        /\ IF r # 0 THEN stop(fail_json(stderr("list", r), RcNone))
           ELSE IF exists_in(list_call(r))
           THEN check_mode_or(IF nmcli.conn_reload THEN "down_reload" ELSE "down_down")
           ELSE stop(finish(rc, err))
    /\ UNCHANGED <<module, diff, nmcli, rc, err, changed, unsupported_properties,
                   tool, interfered>>

down_reload ==
    /\ pc = "down_reload"
    /\ \E r \in RCs :
        /\ cmds' = Append(cmds, call("reload", <<>>, <<>>, r, <<>>))
        /\ rc' = r
        /\ err' = stderr("reload", r)
    /\ goto("down_down")
    /\ UNCHANGED <<module, diff, nmcli, changed, unsupported_properties, tool, interfered>>

down_down ==
    /\ pc = "down_down"
    /\ \E r \in rcs_named :
        /\ cmds' = Append(cmds, call("down", <<nmcli.conn_name>>, <<>>, r, <<>>))
        /\ rc' = r
        /\ err' = stderr("down", r)
        /\ stop(finish_checked(r, stderr("down", r)))
    /\ UNCHANGED <<module, diff, nmcli, changed, unsupported_properties, tool, interfered>>

(***************************************************************************)
(* Another actor adds or deletes the named connection while the run is in  *)
(* progress.                                                               *)
(***************************************************************************)
external_change ==
    /\ pc \notin {"main", "check_wifi", "check_wifi_sec", "done"}
    /\ interfered < MaxExternal
    /\ tool' = [tool EXCEPT !.exists = ~@]
    /\ interfered' = interfered + 1
    /\ UNCHANGED <<module, diff, nmcli, pc, rc, err, changed, unsupported_properties,
                   result, cmds>>

Next ==
    \/ main_checks
    \/ check_wifi
    \/ check_wifi_sec
    \/ absent_exists
    \/ absent_down
    \/ absent_remove
    \/ present_exists
    \/ present_type
    \/ present_compare
    \/ present_modify
    \/ present_modify_edit
    \/ present_reload
    \/ present_exists2
    \/ present_create
    \/ present_create_edit
    \/ present_create_up
    \/ up_exists
    \/ up_reload
    \/ up_up
    \/ down_exists
    \/ down_reload
    \/ down_down
    \/ external_change

Spec == Init /\ [][Next]_vars

(***************************************************************************)
(* The option mapper and the change detector on a wider range of options:  *)
(* state=present runs whose task gives one group of options (a list        *)
(* option, a MAC address, the IPv4 method, an integer) against a stored    *)
(* connection that shows one setting differently or lacks it.              *)
(***************************************************************************)
\* the list options of the model: the setting each maps to, and two elements
ListOption ==
    ("ip4" :> [setting |-> "ipv4.addresses",
               a |-> "192.0.2.1/24", b |-> "192.0.2.2/24"])
    @@ ("ip6" :> [setting |-> "ipv6.addresses",
                  a |-> "2001:db8::1/64", b |-> "2001:db8::2/64"])
    @@ ("dns4" :> [setting |-> "ipv4.dns", a |-> "192.0.2.53", b |-> "192.0.2.54"])
    @@ ("dns6" :> [setting |-> "ipv6.dns",
                   a |-> "2001:db8::53", b |-> "2001:db8::54"])
    @@ ("dns4_search" :> [setting |-> "ipv4.dns-search",
                          a |-> "example.com", b |-> "example.org"])
    @@ ("dns6_search" :> [setting |-> "ipv6.dns-search",
                          a |-> "example.com", b |-> "example.org"])
    @@ ("dns4_options" :> [setting |-> "ipv4.dns-options",
                           a |-> "rotate", b |-> "timeout:1"])
    @@ ("dns6_options" :> [setting |-> "ipv6.dns-options",
                           a |-> "rotate", b |-> "timeout:1"])
    @@ ("routes4" :> [setting |-> "ipv4.routes",
                      a |-> RouteText[1], b |-> RouteText[2]])
    @@ ("routes6" :> [setting |-> "ipv6.routes",
                      a |-> RouteText[3], b |-> RouteText[4]])
    @@ ("routing_rules4" :> [setting |-> "ipv4.routing-rules",
                             a |-> "priority 5 from 192.0.2.0/24 table 5000",
                             b |-> "priority 6 from 198.51.100.0/24 table 5001"])

\* a route as the tool prints it
printed(text) ==
    IF \E j \in 1..Len(RouteText) : RouteText[j] = text
    THEN RoutePrinted[CHOOSE j \in 1..Len(RouteText) : RouteText[j] = text]
    ELSE text

\* the values a task gives a list option
ListValues(o) ==
    {PyList(<<o.a, o.b>>), PyList(<<o.b, o.a>>), PyList(<<o.a>>), PyList(<<>>)}

OneListChoices ==
    UNION {{[k \in {f} |-> v] @@ [state |-> "present", conn_name |-> "c1",
                                  type |-> PyStr("ethernet")] :
               v \in ListValues(ListOption[f])} : f \in DOMAIN ListOption}

\* addresses given without a prefix length
BareAddressChoices ==
    {[ip4 |-> PyList(a4), ip6 |-> PyList(a6), state |-> "present",
      conn_name |-> "c1", type |-> PyStr("ethernet")] :
        a4 \in {<<"192.0.2.1">>, <<"192.0.2.2/24", "192.0.2.1">>},
        a6 \in {<<"2001:db8::1">>, <<"2001:db8::2", "2001:db8::1/64">>}}

WifiListChoices ==
    {[state |-> "present", conn_name |-> "c1", type |-> PyStr("wifi"),
      ssid |-> PyStr("net"),
      wifi_sec |-> ("key-mgmt" :> PyStr("wpa-psk")) @@ ("psk" :> PyStr("secret"))
                   @@ ("proto" :> PyList(l))] :
        l \in {<<"rsn", "wpa">>, <<"wpa", "rsn">>, <<"rsn">>}}

MacChoices ==
    {[state |-> "present", conn_name |-> "c1", type |-> t, mac |-> PyStr(m)] :
        t \in {None} \cup StrSet(TypeChoices \ {"wifi"}),
        m \in {MacLower, MacUpper}}
    \cup {[state |-> "present", conn_name |-> "c1", type |-> PyStr("infiniband"),
           infiniband_mac |-> PyStr(m)] : m \in {MacLower, MacUpper}}

MethodChoices ==
    {m @@ a @@ f @@ [state |-> "present", conn_name |-> "c1", type |-> t] :
        m \in {EmptyDict} \cup {[k \in {"method4"} |-> x] :
                                   x \in StrSet({"auto", "disabled"})},
        a \in {EmptyDict, [k \in {"ip4"} |-> PyList(<<"192.0.2.1/24">>)]},
        f \in {EmptyDict, [k \in {"may_fail4"} |-> PyBool(FALSE)]},
        t \in StrSet({"ethernet", "dummy"})}

IntegerChoices ==
    {[state |-> "present", conn_name |-> "c1", type |-> PyStr("ethernet"),
      autoconnect_priority |-> PyInt(n)] : n \in {"0", "10"}}

\* boolean options: a sub-option of macvlan, and the options of a bridge
BooleanChoices ==
    {[state |-> "present", conn_name |-> "c1", type |-> PyStr("macvlan"),
      macvlan |-> ("mode" :> PyInt("1")) @@ ("parent" :> PyStr("eth0"))
                  @@ ("promiscuous" :> PyBool(b))] : b \in BOOLEAN}
    \cup {s @@ f @@ [state |-> "present", conn_name |-> "c1",
                     type |-> PyStr("bridge")] :
            s \in {EmptyDict, [k \in {"stp"} |-> PyBool(FALSE)]},
            f \in {EmptyDict, [k \in {"priority"} |-> PyInt("64")]}}

OptionChoices ==
    OneListChoices \cup BareAddressChoices \cup WifiListChoices \cup MacChoices
    \cup MethodChoices \cup IntegerChoices \cup BooleanChoices

\* what the tool shows for the stored connection
Shown == observed("802-3-ethernet", "yes", "auto")

ShownChoices ==
    {Shown}
    \cup {[Shown EXCEPT ![ListOption[f].setting] =
              PyList(<<printed(ListOption[f].a), printed(ListOption[f].b)>>)] :
          f \in DOMAIN ListOption}
    \cup {[Shown EXCEPT !["802-11-wireless-security.proto"] =
              PyList(<<"rsn", "wpa">>)]}
    \cup {[observed(t, "yes", "auto") EXCEPT
              !["802-3-ethernet.cloned-mac-address"] = PyStr(m),
              !["bridge.mac-address"] = PyStr(m),
              !["infiniband.mac-address"] = PyStr(m)] :
          t \in {"802-3-ethernet", "bridge"}, m \in {MacUpper, MacOther}}
    \cup {[Shown EXCEPT !["ipv4.method"] = PyStr("disabled")]}
    \cup {[k \in DOMAIN Shown \ lacking |-> Shown[k]] :
          lacking \in {{"connection.autoconnect-priority"},
                       {"ipv4.dns-options", "ipv6.dns-options"}}}

InitOptions ==
    /\ module \in {[args |-> a, params |-> set_defaults(a), check_mode |-> FALSE] :
                      a \in OptionChoices}
    /\ Start
    /\ tool \in [exists : BOOLEAN, conn_info : ShownChoices]
    /\ interfered = 0

NextOptions ==
    \/ main_checks
    \/ check_wifi_sec
    \/ present_exists
    \/ present_type
    \/ present_compare
    \/ present_modify
    \/ present_modify_edit
    \/ present_exists2
    \/ present_create
    \/ present_create_edit
    \/ present_create_up

SpecOptions == InitOptions /\ [][NextOptions]_vars

(***************************************************************************)
(* The run's history, read from the commands it has issued.                *)
(***************************************************************************)
Issued(kind) == {i \in 1..Len(cmds) : cmds[i].cmd = kind}

\* a con edit session that saves what it set
Saves(c) == c.cmd = "edit" /\ \E j \in 1..Len(c.data) : c.data[j] = "save"

\* a con edit session opened on a connection type to print its properties
Queries(c) == c.cmd = "edit" /\ c.args[1] = "type" /\ ~Saves(c)

\* a command that changes the tool's store or the state of a connection
Mutates(c) ==
    c.cmd \in {"add", "modify", "del", "up", "down", "reload"} \/ Saves(c)

\* the i-th command is a listing that succeeded and holds the name
Reported(i) == cmds[i].cmd = "list" /\ cmds[i].rc = 0 /\ Len(cmds[i].out) > 0

\* the i-th command is a listing that succeeded and does not hold the name
ReportedMissing(i) == cmds[i].cmd = "list" /\ cmds[i].rc = 0 /\ Len(cmds[i].out) = 0

Done == pc = "done"
NormalMode == ~module.check_mode
State(s) == module.params.state = s
ReportsChanged(b) == result.kind = "exit" /\ result.changed = PyBool(b)

(***************************************************************************)
(* C1.  In check mode no run issues a mutating command (con add, con       *)
(* modify, a saving con edit, con del, con up, con down, con reload), and  *)
(* a finished run reports changed=true exactly when it reached a command   *)
(* it skipped: absent, up or down with the connection listed; present      *)
(* with the detector reporting a change; present with the connection       *)
(* missing from the listing that precedes the create.                      *)
(***************************************************************************)
SkippedCommand ==
    \/ /\ module.params.state \in {"absent", "up", "down"}
       /\ \E i \in Issued("list") : Reported(i)
    \/ /\ State("present")
       /\ changed = PyBool(TRUE)
    \/ /\ State("present")
       /\ Cardinality(Issued("list")) = 2
       /\ ReportedMissing(Len(cmds))

C1_CheckModeSkips ==
    module.check_mode =>
        /\ \A i \in 1..Len(cmds) : ~Mutates(cmds[i])
        /\ Done => (ReportsChanged(TRUE) <=> SkippedCommand)

C1_Witness ==
    /\ module.check_mode /\ Done /\ State("present")
    /\ changed = PyBool(TRUE) /\ ReportsChanged(TRUE)

(***************************************************************************)
(* C2.  As claimed: in check mode the run never calls the external tool,   *)
(* so no command of any kind is on record.                                 *)
(***************************************************************************)
C2_NoToolCallInCheckMode == module.check_mode => cmds = <<>>

(***************************************************************************)
(* C2, amended.  In check mode the run calls the external tool only to     *)
(* read: the connection listing, con show of the connection, and the con   *)
(* edit session that prints a setting's properties and saves nothing.  A   *)
(* check-mode run that ends by reporting has listed the connections.       *)
(***************************************************************************)
C2_CheckModeReadsOnly ==
    module.check_mode =>
        /\ \A i \in 1..Len(cmds) :
              cmds[i].cmd \in {"list", "show"} \/ Queries(cmds[i])
        /\ (Done /\ result.kind = "exit") => Issued("list") # {}

C2_Witness ==
    /\ module.check_mode /\ Done /\ result.kind = "exit"
    /\ Issued("list") # {} /\ Issued("show") # {}
    /\ \E i \in 1..Len(cmds) : Queries(cmds[i])

(***************************************************************************)
(* C3.  As claimed: in a run outside check mode, if a mutating command     *)
(* returned a nonzero exit code, the run ends in a failure that carries    *)
(* the exit code and the stderr of such a command.                         *)
(***************************************************************************)
FailedMutations == {i \in 1..Len(cmds) : Mutates(cmds[i]) /\ cmds[i].rc # 0}

C3_MutatingFailureIsFatal ==
    (NormalMode /\ Done /\ FailedMutations # {}) =>
        /\ result.kind = "fail"
        /\ \A i \in FailedMutations :
              result.rc = cmds[i].rc /\ result.msg = cmds[i].err

(***************************************************************************)
(* C4.  As claimed: once a command of the run has returned a nonzero exit  *)
(* code, the run issues no further command, so a failing command is the    *)
(* last one on record.                                                     *)
(***************************************************************************)
C4_FailingCommandIsLast ==
    \A i \in 1..Len(cmds) : cmds[i].rc # 0 => i = Len(cmds)

(***************************************************************************)
(* C5.  As claimed: with state=present, mtu set, outside check mode and    *)
(* no existing connection (both listings of the run succeed and neither    *)
(* holds the name), a finished run has issued exactly one con add and,     *)
(* after it, one con up, whatever the connection type (a macvlan           *)
(* connection being given its macvlan option).                             *)
(***************************************************************************)
NoConnection ==
    /\ Cardinality(Issued("list")) = 2
    /\ \A i \in Issued("list") : ReportedMissing(i)

OneAddThenUp ==
    /\ Cardinality(Issued("add")) = 1
    /\ Cardinality(Issued("up")) = 1
    /\ \A i \in Issued("add") : \A j \in Issued("up") : i < j

CreatePrecondition ==
    /\ NormalMode /\ Done /\ State("present")
    /\ module.params.mtu # None
    /\ NoConnection

UpAfterCreateTypes == StrSet({"bond", "dummy", "ethernet", "infiniband", "wifi"})

C6_ReloadThenUp ==
    (NormalMode /\ Done /\ State("up") /\ module.params.conn_reload
     /\ \E i \in Issued("list") : Reported(i))
        => /\ Len(cmds) >= 3
           /\ cmds[Len(cmds) - 2].cmd = "list"
           /\ cmds[Len(cmds) - 1].cmd = "reload"
           /\ cmds[Len(cmds)].cmd = "up"
           /\ Cardinality(Issued("reload")) = 1
           /\ Cardinality(Issued("up")) = 1

C6_Witness ==
    /\ NormalMode /\ Done /\ State("up") /\ module.params.conn_reload
    /\ Len(cmds) >= 3
    /\ cmds[Len(cmds) - 1].cmd = "reload" /\ cmds[Len(cmds) - 1].rc # 0
    /\ cmds[Len(cmds)].cmd = "up" /\ cmds[Len(cmds)].rc = 0

(***************************************************************************)
(* C7.  With state=absent, up or down, in check mode and outside it, when  *)
(* the listing succeeds and does not hold the name, the finished run has   *)
(* issued no mutating command, has not failed and reports changed=false.   *)
(***************************************************************************)
C7_MissingConnectionUntouched ==
    (Done /\ module.params.state \in {"absent", "up", "down"}
     /\ \E i \in Issued("list") : ReportedMissing(i))
        => /\ \A i \in 1..Len(cmds) : ~Mutates(cmds[i])
           /\ ReportsChanged(FALSE)

C7_Witness ==
    /\ Done /\ State("absent") /\ NormalMode
    /\ \E i \in Issued("list") : ReportedMissing(i)
    /\ ReportsChanged(FALSE)

(***************************************************************************)
(* C8.  With state=absent, outside check mode and the connection listed,   *)
(* a finished run has issued con down and then con del as its last two     *)
(* commands, once each, whatever exit code con down returned; and when con *)
(* del returned a nonzero exit code the run failed with that exit code and *)
(* that command's stderr.                                                  *)
(***************************************************************************)
C8_DownThenDelete ==
    (NormalMode /\ Done /\ State("absent") /\ \E i \in Issued("list") : Reported(i))
        => /\ Len(cmds) >= 3
           /\ cmds[Len(cmds) - 1].cmd = "down"
           /\ cmds[Len(cmds)].cmd = "del"
           /\ Cardinality(Issued("down")) = 1
           /\ Cardinality(Issued("del")) = 1
           /\ cmds[Len(cmds)].rc # 0 =>
                 /\ result.kind = "fail"
                 /\ result.rc = cmds[Len(cmds)].rc
                 /\ result.msg = cmds[Len(cmds)].err

C8_Witness ==
    /\ NormalMode /\ Done /\ State("absent")
    /\ Len(cmds) >= 3
    /\ cmds[Len(cmds) - 1].cmd = "down" /\ cmds[Len(cmds) - 1].rc # 0
    /\ cmds[Len(cmds)].cmd = "del" /\ cmds[Len(cmds)].rc # 0
    /\ result.kind = "fail"

(***************************************************************************)
(* C9.  As claimed: with state=up or state=down a run issues nothing but   *)
(* the connection listing, con reload and con up or con down.              *)
(***************************************************************************)
UpDownCommand(c) ==
    \/ c.cmd \in {"list", "reload"}
    \/ c.cmd = module.params.state

C9_UpDownOnlyListReloadUpDown ==
    module.params.state \in {"up", "down"} =>
        \A i \in 1..Len(cmds) : UpDownCommand(cmds[i])

(***************************************************************************)
(* C9, amended.  With state=up or state=down a run never issues con add,   *)
(* con modify, con del, a saving con edit or con show of the connection;   *)
(* it issues nothing but the connection listing, at most one con reload,   *)
(* at most one con up or con down, and, for type wifi with wifi or         *)
(* wifi_sec sub-options, the con edit sessions that print the properties   *)
(* of a setting and save nothing.                                          *)
(***************************************************************************)
C9_UpDownFrame ==
    module.params.state \in {"up", "down"} =>
        /\ \A i \in 1..Len(cmds) :
              \/ UpDownCommand(cmds[i])
              \/ /\ Queries(cmds[i])
                 /\ module.params.type = PyStr("wifi")
                 /\ DOMAIN module.params.wifi \cup DOMAIN module.params.wifi_sec # {}
        /\ Cardinality(Issued("reload")) <= 1
        /\ Cardinality(Issued(module.params.state)) <= 1

C9_Witness ==
    /\ Done /\ State("down") /\ NormalMode
    /\ module.params.type = PyStr("wifi")
    /\ module.params.mtu # None
    /\ \E i \in 1..Len(cmds) : Queries(cmds[i])
    /\ Issued("reload") # {}
    /\ Issued("down") # {}

(***************************************************************************)
(* C10.  With state=present, outside check mode and an existing            *)
(* connection (every listing of the run succeeds and holds the name): if   *)
(* the detector reports changed, the finished run has issued exactly one   *)
(* con modify and, after it, one con reload if conn_reload is true and     *)
(* none if it is false; if the detector reports unchanged, the run has     *)
(* issued no mutating command and reports changed=false.                   *)
(***************************************************************************)
ExistingConnection ==
    /\ Issued("list") # {}
    /\ \A i \in Issued("list") : Reported(i)

C10_ModifyWhenChanged ==
    (NormalMode /\ Done /\ State("present") /\ ExistingConnection) =>
        /\ changed = PyBool(TRUE) =>
              /\ Cardinality(Issued("modify")) = 1
              /\ Cardinality(Issued("reload")) =
                    (IF module.params.conn_reload THEN 1 ELSE 0)
              /\ \A i \in Issued("modify") : \A j \in Issued("reload") : i < j
        /\ changed = PyBool(FALSE) =>
              /\ \A i \in 1..Len(cmds) : ~Mutates(cmds[i])
              /\ ReportsChanged(FALSE)

C10_Witness ==
    /\ NormalMode /\ Done /\ State("present") /\ ExistingConnection
    /\ changed = PyBool(TRUE)
    /\ module.params.conn_reload
    /\ Issued("modify") # {} /\ Issued("reload") # {}
    /\ \E i \in 1..Len(cmds) : Saves(cmds[i])

(***************************************************************************)
(* C11.  When the task supplies gw4 together with never_default4=true, the *)
(* run never leaves the checks that precede the first use of the external  *)
(* tool: no command of any kind is on record, and the finished run has     *)
(* failed with the mutual-exclusion error and no exit code.                *)
(***************************************************************************)
Supplied(name) == name \in DOMAIN module.args /\ module.args[name] # None

GatewayAndNeverDefault ==
    Supplied("gw4") /\ Supplied("never_default4")
    /\ module.params.never_default4 = PyBool(TRUE)

C11_GatewayNeverDefaultRejected ==
    GatewayAndNeverDefault =>
        /\ cmds = <<>>
        /\ pc \in {"main", "done"}
        /\ Done => /\ result.kind = "fail"
                   /\ result.rc = RcNone
                   /\ result.msg = check_mutually_exclusive(module.args)

C11_Witness ==
    /\ GatewayAndNeverDefault /\ Done
    /\ result.kind = "fail" /\ cmds = <<>>

(***************************************************************************)
(* C12.  As claimed: a run that ends with a validation error (mutually     *)
(* exclusive options, slave_type without master, the team runner checks,   *)
(* the team-slave checks, a slave connection type with another slave_type, *)
(* an unsupported wifi or wifi_sec sub-option) has executed no command.    *)
(***************************************************************************)
EarlyErrors ==
    {"parameters are mutually exclusive: never_default4|gw4",
     "'master' option is required when 'slave_type' is specified.",
     "Runner-hwaddr-policy is only allowed for runner activebackup",
     "runner-fast-rate is only allowed for runner lacp",
     "Please specify a name for the master",
     "Please specify an interface name for the connection"}

MismatchError == "Connection type cannot be combined with slave-type"
UnsupportedError == "Invalid or unsupported option(s)"

ValidationErrors == EarlyErrors \cup {MismatchError, UnsupportedError}

EndsWith(msgs) == Done /\ result.kind = "fail" /\ result.msg \in msgs

C12_ValidationBeforeAnyCommand == EndsWith(ValidationErrors) => cmds = <<>>

(***************************************************************************)
(* C12, amended.  A run that ends with a validation error has executed no  *)
(* mutating command.  The errors of the arguments, of slave_type without   *)
(* master, of the team runner and of team-slave come before any command.   *)
(* A slave connection type with another slave_type is reported in          *)
(* state=present only, after the connection listing and before any other   *)
(* command.  An unsupported wifi or wifi_sec sub-option is reported after  *)
(* the capability query, a con edit session that saves nothing, has        *)
(* succeeded, and before any other command.                                *)
(***************************************************************************)
C12_ValidationBeforeMutation ==
    /\ EndsWith(ValidationErrors) => \A i \in 1..Len(cmds) : ~Mutates(cmds[i])
    /\ EndsWith(EarlyErrors) => cmds = <<>>
    /\ EndsWith({MismatchError}) =>
          /\ State("present")
          /\ cmds # <<>>
          /\ \A i \in 1..Len(cmds) : cmds[i].cmd = "list" /\ cmds[i].rc = 0
    /\ EndsWith({UnsupportedError}) =>
          /\ cmds # <<>>
          /\ \A i \in 1..Len(cmds) : Queries(cmds[i]) /\ cmds[i].rc = 0

C12_Witness ==
    /\ EndsWith({UnsupportedError})
    /\ Len(cmds) = 2
    /\ Queries(cmds[2])

C12_WitnessMismatch ==
    /\ EndsWith({MismatchError})
    /\ Len(cmds) = 2

(***************************************************************************)
(* C13.  As claimed: whatever the connection type and the state, a run     *)
(* with slave_type set and master unset issues no mutating command and,    *)
(* once finished, has failed with the error that asks for the master.      *)
(***************************************************************************)
MasterErrors ==
    {"'master' option is required when 'slave_type' is specified.",
     "Please specify a name for the master"}

C13_SlaveTypeNeedsMaster ==
    (module.params.slave_type # None /\ module.params.master = None) =>
        /\ \A i \in 1..Len(cmds) : ~Mutates(cmds[i])
        /\ Done => EndsWith(MasterErrors)

(***************************************************************************)
(* The detector's record of a run: diff.before holds, for every setting    *)
(* it compared, the observed value and diff.after the desired one.         *)
(***************************************************************************)
Detected == changed # None
Compared == DOMAIN diff.after
IsList(x) == x.t = "list"

\* b holds the elements of a in some sequence
IsPermutation(a, b) ==
    /\ Len(a) = Len(b)
    /\ \E p \in Permutations(1..Len(a)) : \A i \in 1..Len(a) : a[i] = b[p[i]]

\* the desired and the observed list of a setting hold the same elements
Permuted(key) ==
    /\ key \in Compared
    /\ IsList(diff.before[key]) /\ IsList(diff.after[key])
    /\ IsPermutation(diff.before[key].v, diff.after[key].v)

Reordered(key) == Permuted(key) /\ diff.before[key] # diff.after[key]

\* every compared setting but those of S was observed as desired
OthersMatch(S) == \A k \in Compared \ S : diff.before[k] = diff.after[k]

(***************************************************************************)
(* C14.  For each of ipv4.addresses, ipv6.addresses, ipv4.dns, ipv6.dns,   *)
(* ipv4.dns-search and ipv6.dns-search: when the detector has compared a   *)
(* desired list with an observed list that holds the same elements in a    *)
(* different sequence, it has reported changed=true.                       *)
(***************************************************************************)
AddressAndDnsSettings ==
    {"ipv4.addresses", "ipv6.addresses", "ipv4.dns", "ipv6.dns",
     "ipv4.dns-search", "ipv6.dns-search"}

C14_ReorderIsChange ==
    Detected =>
        \A key \in AddressAndDnsSettings :
            Reordered(key) => changed = PyBool(TRUE)

C14_Witness ==
    /\ Detected /\ changed = PyBool(TRUE)
    /\ Reordered("ipv6.dns-search")
    /\ OthersMatch({"ipv6.dns-search"})

(***************************************************************************)
(* C15.  For the list settings that are not order-sensitive (dns-options,  *)
(* routes and routing-rules of ipv4 and ipv6, and the list-typed wifi      *)
(* settings): when each of them was observed as a permutation of the       *)
(* desired list and every other compared setting was observed as desired,  *)
(* the detector has reported changed=false.                                *)
(***************************************************************************)
UnorderedListSettings ==
    {"ipv4.dns-options", "ipv6.dns-options", "ipv4.routes", "ipv6.routes",
     "ipv4.routing-rules",
     "802-11-wireless-security.group",
     "802-11-wireless-security.leap-password-flags",
     "802-11-wireless-security.pairwise",
     "802-11-wireless-security.proto",
     "802-11-wireless-security.psk-flags",
     "802-11-wireless-security.wep-key-flags",
     "802-11-wireless.mac-address-blacklist"}

C15_PermutationIsNoChange ==
    (/\ Detected
     /\ \A key \in Compared \cap UnorderedListSettings : Permuted(key)
     /\ OthersMatch(UnorderedListSettings))
        => changed = PyBool(FALSE)

C15_Witness ==
    /\ Detected /\ changed = PyBool(FALSE)
    /\ Reordered("ipv4.routes")
    /\ OthersMatch({"ipv4.routes"})

(***************************************************************************)
(* C16.  As claimed: for each MAC-address setting the module maps          *)
(* (802-3-ethernet.cloned-mac-address, bridge.mac-address,                 *)
(* infiniband.mac-address) and whatever the connection type, when the      *)
(* desired and the observed address differ in letter case at most, the     *)
(* detector has recorded no difference for that setting.                   *)
(***************************************************************************)
MacSettings ==
    {"802-3-ethernet.cloned-mac-address", "bridge.mac-address",
     "infiniband.mac-address"}

DesiredMac(key) ==
    IF key = "infiniband.mac-address" THEN module.params.infiniband_mac
    ELSE module.params.mac

SameButCase(key) ==
    /\ key \in Compared
    /\ DesiredMac(key) # None
    /\ tool.conn_info[key] # None
    /\ upper(DesiredMac(key).v[1]) = upper(tool.conn_info[key].v[1])

C16_MacCaseIgnored ==
    Detected =>
        \A key \in MacSettings :
            SameButCase(key) => diff.before[key] = diff.after[key]

(***************************************************************************)
(* C17.  The desired ipv4.addresses holds the addresses the task gave, in  *)
(* the same number and sequence, each one unchanged when it contains a '/' *)
(* and with '/32' appended when it does not; likewise ipv6.addresses with  *)
(* '/128'.  This is the list the detector compares and, joined by commas,  *)
(* the value of the setting in every con add and con modify command.       *)
(* Normalizing the desired list again changes nothing.                     *)
(***************************************************************************)
\* the addresses a task of the model gives without a '/'
BareAddresses == {"192.0.2.1", "192.0.2.2", "2001:db8::1", "2001:db8::2"}

WithPrefixLength(given, suffix) ==
    [i \in 1..Len(given) |->
        IF given[i] \in BareAddresses THEN given[i] \o suffix ELSE given[i]]

\* the command c sets key to text
Sets(c, key, text) ==
    \E i \in 1..(Len(c.args) - 1) : c.args[i] = key /\ c.args[i + 1] = text

Names(c, key) == \E i \in 1..Len(c.args) : c.args[i] = key

Updates == Issued("add") \cup Issued("modify")

C17_AddressesGetPrefixLength ==
    /\ (Detected /\ module.params.ip4 # None /\ "ipv4.addresses" \in Compared) =>
          /\ diff.after["ipv4.addresses"] =
                PyList(WithPrefixLength(module.params.ip4.v, "/32"))
          /\ enforce_ipv4_cidr_notation(diff.after["ipv4.addresses"]) =
                diff.after["ipv4.addresses"]
    /\ (Detected /\ module.params.ip6 # None /\ "ipv6.addresses" \in Compared) =>
          /\ diff.after["ipv6.addresses"] =
                PyList(WithPrefixLength(module.params.ip6.v, "/128"))
          /\ enforce_ipv6_cidr_notation(diff.after["ipv6.addresses"]) =
                diff.after["ipv6.addresses"]
    /\ \A i \in Updates :
          /\ module.params.ip4 # None =>
                Sets(cmds[i], "ipv4.addresses",
                     Join(",", WithPrefixLength(module.params.ip4.v, "/32")))
          /\ module.params.ip6 # None =>
                Sets(cmds[i], "ipv6.addresses",
                     Join(",", WithPrefixLength(module.params.ip6.v, "/128")))

C17_Witness ==
    /\ Detected
    /\ module.params.ip4 = PyList(<<"192.0.2.2/24", "192.0.2.1">>)
    /\ module.params.ip6 = PyList(<<"2001:db8::2", "2001:db8::1/64">>)
    /\ diff.after["ipv4.addresses"] = PyList(<<"192.0.2.2/24", "192.0.2.1/32">>)
    /\ diff.after["ipv6.addresses"] =
          PyList(<<"2001:db8::2/128", "2001:db8::1/64">>)
    /\ \E i \in Issued("modify") :
          Sets(cmds[i], "ipv4.addresses", "192.0.2.2/24,192.0.2.1/32")

(***************************************************************************)
(* C18.  With type wifi and a wifi or wifi_sec sub-option the capability   *)
(* query does not list (band and pmf in the model).  With                  *)
(* ignore_unsupported_suboptions=true, once the checks are over the        *)
(* sub-option is no longer in the desired state, no con add, con modify    *)
(* or con edit command names it, and the detector has not compared it.     *)
(* With ignore_unsupported_suboptions=false the run never gets past the    *)
(* checks: it issues no mutating command and ends without success.         *)
(***************************************************************************)
UnsupportedGiven ==
    IF module.params.type # PyStr("wifi") THEN {}
    ELSE {[setting |-> "802-11-wireless", field |-> "wifi", name |-> n] :
             n \in DOMAIN module.params.wifi \cap {"band"}}
         \cup {[setting |-> "802-11-wireless-security", field |-> "wifi_sec",
                name |-> n] : n \in DOMAIN module.params.wifi_sec \cap {"pmf"}}

InChecks == pc \in {"main", "check_wifi", "check_wifi_sec"}

Mentions(c, key) ==
    \/ Names(c, key)
    \/ \E j \in 1..Len(c.data) :
          c.data[j] \in {"set " \o key \o " " \o v : v \in {"a", "1"}}

C18_UnsupportedDroppedOrFatal ==
    UnsupportedGiven # {} =>
        IF module.params.ignore_unsupported_suboptions
        THEN \A u \in UnsupportedGiven :
                /\ ~InChecks /\ ~Done => u.name \notin DOMAIN nmcli[u.field]
                /\ \A i \in 1..Len(cmds) :
                      cmds[i].cmd \in {"add", "modify", "edit"} =>
                          ~Mentions(cmds[i], u.setting \o "." \o u.name)
                /\ Detected => (u.setting \o "." \o u.name) \notin Compared
        ELSE /\ InChecks \/ Done
             /\ \A i \in 1..Len(cmds) : ~Mutates(cmds[i])
             /\ Done => result.kind \in {"fail", "crash"}

C18_Witness ==
    /\ Cardinality(UnsupportedGiven) = 2
    /\ module.params.ignore_unsupported_suboptions
    /\ Done /\ Detected
    /\ Issued("modify") # {}
    /\ \E i \in 1..Len(cmds) : Saves(cmds[i])

C18_WitnessFatal ==
    /\ UnsupportedGiven # {}
    /\ ~module.params.ignore_unsupported_suboptions
    /\ EndsWith({UnsupportedError})

(***************************************************************************)
(* C19.  As claimed: when the IPv4 method in effect is 'disabled', or no   *)
(* IPv4 method is in effect, no con add or con modify command names        *)
(* ipv4.may-fail and the detector has not compared it.                     *)
(***************************************************************************)
NoIPv4Method == nmcli.ipv4_method \in {None, PyStr("disabled")}

C19_MayFailOnlyWithMethod ==
    NoIPv4Method =>
        /\ \A i \in Updates : ~Names(cmds[i], "ipv4.may-fail")
        /\ Detected => "ipv4.may-fail" \notin Compared

(***************************************************************************)
(* C20.  The settings the detector has compared that the tool's listing of *)
(* the connection lacks while the value asked for is the integer 0 or an   *)
(* empty list.                                                             *)
(***************************************************************************)
Desired == detect_options(nmcli).options

LackedFalsy ==
    {k \in Compared \cap DOMAIN Desired :
        /\ k \notin DOMAIN tool.conn_info
        /\ Desired[k] \in {PyInt("0"), PyList(<<>>)}}

\* C20, as claimed: for such a setting the observed value is taken as None
\* and the detector reports no change for it, so that when every other
\* compared setting matches the detector has reported changed=false.
C20_LackedFalsyIsNoChange ==
    Detected =>
        /\ \A k \in LackedFalsy : diff.before[k] = None
        /\ (LackedFalsy # {} /\ OthersMatch(LackedFalsy)) =>
               changed = PyBool(FALSE)

\* C20, as the code has it: for such a setting the observed value is taken
\* as None, the value asked for is recorded as its text ("0" or "[]"),
\* which differs from None, and the detector has reported changed=true.
C20_LackedFalsyIsChange ==
    Detected =>
        \A k \in LackedFalsy :
            /\ diff.before[k] = None
            /\ diff.after[k] =
                   PyStr(IF Desired[k] = PyInt("0") THEN "0" ELSE "[]")
            /\ changed = PyBool(TRUE)

C20_Witness ==
    /\ Detected
    /\ "connection.autoconnect-priority" \in LackedFalsy
    /\ OthersMatch(LackedFalsy)

C20_WitnessList ==
    /\ Detected
    /\ "ipv4.dns-options" \in LackedFalsy
    /\ OthersMatch(LackedFalsy)

(***************************************************************************)
(* C21.  The diff the detector has returned has the same keys in 'before'  *)
(* and in 'after', and they are exactly the desired options whose value is *)
(* neither None nor the empty string (0 and the empty list are kept),      *)
(* whether or not the two values of a key match.                           *)
(***************************************************************************)
Empty(value) == value = None \/ value = PyStr("")

C21_DiffKeysAreNonEmptyOptions ==
    Detected =>
        /\ DOMAIN diff.before = DOMAIN diff.after
        /\ Compared = {k \in DOMAIN Desired : ~Empty(Desired[k])}

\* a diff with a key that matches, a key asked for as [] that differs, and
\* an option left as None outside it
C21_Witness ==
    /\ Detected
    /\ \E k \in Compared : diff.before[k] = diff.after[k]
    /\ \E k \in Compared : Desired[k] = PyList(<<>>) /\ diff.before[k] # diff.after[k]
    /\ \E k \in DOMAIN Desired \ Compared : Desired[k] = None

(***************************************************************************)
(* C22.  As claimed: every desired parameter of the Nmcli object keeps the *)
(* value it was built with from the task's parameters, whatever steps the  *)
(* run has taken.                                                          *)
(***************************************************************************)
C22_ParametersImmutable ==
    \A k \in DOMAIN module.params : nmcli[k] = module.params[k]

\* what is left of a dict option: some of its entries, unaltered
Remains(now, built) ==
    /\ DOMAIN now \subseteq DOMAIN built
    /\ \A k \in DOMAIN now : now[k] = built[k]

\* the names the capability queries have found unsupported
Unsupported(group) ==
    IF group \in DOMAIN unsupported_properties
    THEN unsupported_properties[group] ELSE {}

\* C22, as the code has it: the parameters other than type, mtu, wifi and
\* wifi_sec keep the value they were built with.  type changes only from
\* unset to the type of the connection shown (802-11-wireless read as
\* wifi); mtu changes only from unset to 0, in the detector; wifi and
\* wifi_sec only lose entries: wifi its ssid, and both, when unsupported
\* sub-options are to be ignored, the names found unsupported.
C22_ParametersFrame ==
    /\ \A k \in DOMAIN module.params \ {"type", "mtu", "wifi", "wifi_sec"} :
          nmcli[k] = module.params[k]
    /\ nmcli.type # module.params.type =>
          /\ module.params.type = None
          /\ Issued("show") # {}
          /\ nmcli.type = IF tool.conn_info["connection.type"] = PyStr("802-11-wireless")
                          THEN PyStr("wifi") ELSE tool.conn_info["connection.type"]
    /\ nmcli.mtu # module.params.mtu =>
          /\ module.params.mtu = None
          /\ nmcli.mtu = PyInt("0")
          /\ Detected
    /\ Remains(nmcli.wifi, module.params.wifi)
    /\ Remains(nmcli.wifi_sec, module.params.wifi_sec)
    /\ DOMAIN module.params.wifi \ DOMAIN nmcli.wifi \subseteq
          {"ssid"} \cup (IF nmcli.ignore_unsupported_suboptions
                         THEN Unsupported("wifi") ELSE {})
    /\ DOMAIN module.params.wifi_sec \ DOMAIN nmcli.wifi_sec \subseteq
          (IF nmcli.ignore_unsupported_suboptions
           THEN Unsupported("wifi_sec") ELSE {})

\* a run whose detector has set mtu to 0
C22_Witness ==
    /\ module.params.mtu = None /\ nmcli.mtu = PyInt("0")
    /\ nmcli.type = module.params.type

\* a run that has inferred the type
C22_WitnessType ==
    /\ module.params.type = None /\ nmcli.type = PyStr("bridge")
    /\ nmcli.mtu = module.params.mtu

\* a run that has dropped wifi.ssid and an unsupported wifi sub-option
C22_WitnessWifi ==
    /\ DOMAIN module.params.wifi = {"ssid", "mode", "band"}
    /\ DOMAIN nmcli.wifi = {"mode"}

(***************************************************************************)
(* C23.  As claimed: in every con add / con modify command the run has     *)
(* issued, each setting whose value is a boolean is followed by the token  *)
(* yes or the token no.                                                    *)
(***************************************************************************)
BooleanSettings ==
    {k \in DOMAIN raw_options(nmcli) : raw_options(nmcli)[k].t = "bool"}

C23_BooleansAsYesNo ==
    \A i \in Updates : \A k \in BooleanSettings :
        Names(cmds[i], k) => Sets(cmds[i], k, "yes") \/ Sets(cmds[i], k, "no")

(***************************************************************************)
(* C24.  The list-typed settings that are set, and the two route settings. *)
(***************************************************************************)
ListSettings ==
    {k \in DOMAIN raw_options(nmcli) :
        settings_type(k) = "list" /\ raw_options(nmcli)[k] # None}

RouteSettings == {"ipv4.routes", "ipv6.routes"}

\* the setting's elements joined by sep, in their given order
Rendered(key, sep) == Join(sep, raw_options(nmcli)[key].v)

\* C24, as claimed: every con add / con modify command the run has issued
\* carries each list-typed setting as its elements joined by commas, except
\* ipv4.routes and ipv6.routes, which it carries joined by semicolons.
C24_RoutesJoinedBySemicolons ==
    \A i \in Updates : \A k \in ListSettings :
        Sets(cmds[i], k, Rendered(k, IF k \in RouteSettings THEN ";" ELSE ","))

\* C24, as the code has it: every con add / con modify command the run has
\* issued carries each list-typed setting, the two route settings included,
\* as its elements joined by commas in their given order.
C24_ListsJoinedByCommas ==
    \A i \in Updates : \A k \in ListSettings : Sets(cmds[i], k, Rendered(k, ","))

\* a command carrying two routes
C24_Witness ==
    \E i \in Updates :
        /\ "ipv4.routes" \in ListSettings
        /\ Len(raw_options(nmcli)["ipv4.routes"].v) = 2
        /\ Names(cmds[i], "ipv4.routes")

\* a command carrying two addresses of each family
C24_WitnessAddresses ==
    \E i \in Issued("modify") :
        /\ {"ipv4.addresses", "ipv6.addresses"} \subseteq ListSettings
        /\ Sets(cmds[i], "ipv4.addresses", "192.0.2.2/24,192.0.2.1/32")
        /\ Names(cmds[i], "ipv6.addresses")

(***************************************************************************)
(* C25.  The secrets of the task: the sub-options psk, leap-password and   *)
(* wep-key0..3 of wifi_sec, with the line of a con edit session that sets  *)
(* each.                                                                   *)
(***************************************************************************)
SecretNames ==
    {"psk", "leap-password", "wep-key0", "wep-key1", "wep-key2", "wep-key3"}

Secrets == SecretNames \cap DOMAIN module.params.wifi_sec

SecretValue(name) == module.params.wifi_sec[name].v[1]

SetLine(name) ==
    "set 802-11-wireless-security." \o name \o " " \o SecretValue(name)

Holds(lines, line) == \E j \in 1..Len(lines) : lines[j] = line

\* C25: no command of the run has a secret's value in its argument vector;
\* a command whose input holds the line setting a secret is a con edit
\* session whose last two lines are save and quit, and the command before
\* it is a con add or con modify that returned 0.
C25_SecretsOnlyInEditSession ==
    \A name \in Secrets : \A i \in 1..Len(cmds) :
        /\ ~Holds(cmds[i].args, SecretValue(name))
        /\ Holds(cmds[i].data, SetLine(name)) =>
              /\ cmds[i].cmd = "edit"
              /\ Len(cmds[i].data) >= 3
              /\ cmds[i].data[Len(cmds[i].data) - 1] = "save"
              /\ cmds[i].data[Len(cmds[i].data)] = "quit"
              /\ i > 1
              /\ cmds[i - 1].cmd \in {"add", "modify"}
              /\ cmds[i - 1].rc = 0

\* a run that has created the connection and delivered the psk
C25_Witness ==
    /\ "psk" \in Secrets
    /\ \E i \in Issued("edit") :
          /\ Holds(cmds[i].data, SetLine("psk"))
          /\ cmds[i - 1].cmd = "add"

\* a run that has modified the connection and delivered the psk
C25_WitnessModify ==
    /\ "psk" \in Secrets
    /\ \E i \in Issued("edit") :
          /\ Holds(cmds[i].data, SetLine("psk"))
          /\ cmds[i - 1].cmd = "modify"

(***************************************************************************)
(* C26.  As claimed: for type bridge with stp=false, no con add or con     *)
(* modify command of the run names bridge.priority and the detector has    *)
(* not compared it.                                                        *)
(***************************************************************************)
BridgeWithoutStp ==
    module.params.type = PyStr("bridge") /\ module.params.stp = PyBool(FALSE)

C26_PriorityOnlyWithStp ==
    BridgeWithoutStp =>
        /\ \A i \in Updates : ~Names(cmds[i], "bridge.priority")
        /\ Detected => "bridge.priority" \notin Compared

(***************************************************************************)
(* C27.  The run in which the type the detector has inferred was passed    *)
(* explicitly, with otherwise identical parameters, on the same stored     *)
(* connection: the object it builds and the answer of its detector.        *)
(***************************************************************************)
TypeInferred ==
    /\ module.params.type = None
    /\ Detected
    /\ nmcli.type \in StrSet(TypeChoices)

ExplicitArgs == [k \in {"type"} |-> nmcli.type] @@ module.args

Explicit == __init__(set_defaults(ExplicitArgs))

\* the explicit run passes main's checks and builds its options
ExplicitDetects ==
    /\ validation_error(ExplicitArgs, Explicit) = ""
    /\ Explicit.type # PyStr("wifi")
    /\ detect_options(Explicit).status = "ok"

ExplicitAnswer ==
    _compare_conn_params(Explicit, tool.conn_info, detect_options(Explicit).options)

\* C27, as claimed: the detector of a run that has inferred the type has
\* compared the same keys and reported the same changed flag as the
\* detector of the run given that type explicitly.
C27_InferredTypeAsExplicit ==
    (TypeInferred /\ ExplicitDetects) =>
        /\ Compared = DOMAIN ExplicitAnswer.diff.after
        /\ changed = PyBool(ExplicitAnswer.changed)

(***************************************************************************)
(* C28.  A check-mode run and a normal run started with the same           *)
(* parameters on the same store take the same steps up to the point where  *)
(* check mode reports: after the listing for absent, up and down; after    *)
(* the detector, or after the listing that precedes the create, for        *)
(* present.  ForecastMade says the run has passed that point, and Forecast *)
(* is the changed value check mode reports there.                          *)
(***************************************************************************)
FirstListing == CHOOSE i \in Issued("list") : \A j \in Issued("list") : i <= j

ForecastMade ==
    IF State("present")
    THEN \/ Detected
         \/ /\ Cardinality(Issued("list")) = 2
            /\ \A i \in Issued("list") : cmds[i].rc = 0
    ELSE Issued("list") # {} /\ cmds[FirstListing].rc = 0

Forecast ==
    IF State("present")
    THEN (Detected => changed = PyBool(TRUE))
    ELSE Reported(FirstListing)

EveryCommandSucceeded == \A i \in 1..Len(cmds) : cmds[i].rc = 0

\* C28, as claimed: a finished run that has passed the point where check
\* mode reports, with no other actor changing the store and every command
\* exiting 0, has reported the changed value check mode reports, in check
\* mode and in a normal run alike.
C28_CheckModePredicts ==
    (Done /\ interfered = 0 /\ ForecastMade /\ EveryCommandSucceeded) =>
        ReportsChanged(Forecast)

(***************************************************************************)
(* C29.  With state=present and no other actor changing the store during   *)
(* the run, the run has not issued both a con modify and a con add.        *)
(***************************************************************************)
C29_ModifyOrAddNotBoth ==
    (State("present") /\ interfered = 0) =>
        ~(Issued("modify") # {} /\ Issued("add") # {})

\* a finished run that modified the connection, checked for it again and
\* did not add it
C29_Witness ==
    /\ State("present") /\ interfered = 0 /\ Done
    /\ Issued("modify") # {} /\ Issued("add") = {}
    /\ Cardinality(Issued("list")) = 2
    /\ Reported(Len(cmds))

\* a finished run that added the connection and did not modify it
C29_WitnessAdd ==
    /\ State("present") /\ interfered = 0 /\ Done
    /\ Issued("add") # {} /\ Issued("modify") = {}

\* with the connection deleted by another actor between the two existence
\* checks, a run issues both
C29_WitnessInterfered ==
    /\ State("present") /\ interfered = 1
    /\ Issued("modify") # {} /\ Issued("add") # {}

(***************************************************************************)
(* C30.  A run with state=present and mtu left unset whose detector has    *)
(* run on a connection of a type that has an MTU.                          *)
(***************************************************************************)
MtuKey == mtu_setting(nmcli)

UnsetMtuDetected ==
    /\ State("present")
    /\ module.params.mtu = None
    /\ Detected
    /\ mtu_conn_type(nmcli)

C30_WitnessAuto ==
    /\ UnsetMtuDetected
    /\ OthersMatch({})
    /\ changed = PyBool(FALSE)
    /\ Done

====
